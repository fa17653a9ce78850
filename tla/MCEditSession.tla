---------------------------- MODULE MCEditSession ----------------------------
(* Instances of EditSession for TLC: one Python file. *)
EXTENDS EditSession

OnlyPy == {"a.py"}

TwoChunks == {"good", "bad"}
BadChunk == {"bad"}
UserText == {<<"good">>}

Fa(op, c) == [path |-> "a.py", op |-> op, text |-> c]

Replace == Fa("replace", <<"good">>)
Actions ==
  {Replace, Fa("replace", <<"bad">>), Fa("append", <<"good">>), Fa("delete", <<>>)}

\* No action, one with or without a command, or one followed by a replace.
SomeResponses ==
  [files : {<<>>} \cup {<<f>> : f \in Actions}, command : BOOLEAN]
    \cup [files : {<<f, Replace>> : f \in Actions \ {Replace}}, command : {FALSE}]
=============================================================================
