------------------------------ MODULE MCShell ------------------------------
(* Small scripts for ShellMeaning.                                         *)
EXTENDS ShellMeaning

TwoFiles == [f \in {"f", "g"} |-> IF f = "f" THEN 1 ELSE -1]

(* Blanks between words that would stand side by side. *)
Spaced(X) == FoldLeft(LAMBDA out, x : IF out # <<>> /\ IsWord(out[Len(out)]) /\ IsWord(x)
                                       THEN out \o <<" ", x>> ELSE Append(out, x), <<>>, X)

Pipeline3 == <<"emit", "|", "cat", "|", "cat", ">", "g", NL>>
Endless == <<"yes", "|", "(", "head", ";", "false", ")", NL, "cat", "<", "g", NL>>
Loops == <<"while", "hold", NL, "do", NL, "emit", ";", "done", ">", "g", NL,
           "if", "missing", NL, "then", ":", NL, "else", "exec", "cat", ";", "fi", "<", "g", NL>>
Mixed == <<NL, "(", "exec", "cat", ")", "<", "f", ">", "g", ";", NL,
           "until", "miss", ";", "do", "if", "false", ";", "then", "true", ";", "fi", ";", "done", NL>>
Broken == <<"emit", ">", "f", NL, "true", ";", "fi", NL>>
Orphan == <<NL, "(", "true", "|", "cat", ")", NL, "true", NL>>
Bare == <<"(", "exec", ")", ">", "g", NL, "exec", NL, "emit", NL>>
SomeTexts == {<<NL>>} \cup {Spaced(X) : X \in {Pipeline3, Endless, Loops, Mixed, Orphan, Bare, Broken}}

(* Texts to read only, and all that are one lexeme more, less or other. *)
Seeds == {
  <<"a", "if", "<", "c", ">", "d", ";", "b", "|", "c", NL, "a", NL>>,
  <<"x", "#", "y", NL, "(", NL, "a", NL, NL, "b", ")", "|", NL, "c", NL>>,
  <<"if", "a", NL, "then", "if", "b", ";", "then", "c", ";", "else", "d", ";", "fi", NL, "else", "e", NL, "fi", ">", "f", NL>>,
  <<"while", "(", "a", "|", "b", ")", ";", "do", NL, "until", "c", NL, "do", "d", ";", "done", ";", "done", "<", "f", NL>> }
Lexicon == {"a", "if", "then", "else", "fi", "done", ";", "|", "(", ")", "<", NL, "#", "&"}
Edits(X) ==
  {X} \cup {RemoveAt(X, k) : k \in DOMAIN X}
  \cup UNION {{ReplaceAt(X, k, x), InsertAt(X, k, x)} : k \in DOMAIN X, x \in Lexicon}
SomeShown == UNION {{Spaced(Y) : Y \in Edits(X)} : X \in Seeds}
=============================================================================
