---------------------------- MODULE Redirection -----------------------------
(***************************************************************************)
(* check_output_redirection and check_input_redirection of daemon/server.c *)
(* on a line that get_tokens has split: which file a program's output and  *)
(* input are connected to, and the arguments that are left.  Both cut the  *)
(* array at the first token they look for, by writing a null pointer, so   *)
(* that the second finds nothing that stood behind the first.              *)
(*                                                                         *)
(* Neither opens a file with O_TRUNC: a program writes over what was there.*)
(***************************************************************************)
EXTENDS Naturals, Sequences

NoFile == "no file"

Positions(tokens, mark) == {i \in DOMAIN tokens : tokens[i] = mark}
FirstPosition(tokens, mark) ==
    CHOOSE i \in Positions(tokens, mark) : \A j \in Positions(tokens, mark) : i <= j

Cut(tokens, mark) ==
    LET i == FirstPosition(tokens, mark)
    IN  IF Positions(tokens, mark) = {} THEN [args |-> tokens, file |-> NoFile]
        ELSE [args |-> SubSeq(tokens, 1, i - 1),
              file |-> IF i < Len(tokens) THEN tokens[i + 1] ELSE NoFile]

\* What a child does with its tokens, in the order of process_cmd.
Redirected(tokens) ==
    LET out == Cut(tokens, ">")
        in  == Cut(out.args, "<")
    IN  [args |-> in.args, input |-> in.file, output |-> out.file]

\* A write of text at offset 0 over what is there, without O_TRUNC; also a recv of text
\* into a buffer whose older text it does not terminate.
Overlay(old, text) == text \o SubSeq(old, Len(text) + 1, Len(old))
=============================================================================
