---------------------------- MODULE ShellGrammar ---------------------------
(***************************************************************************)
(* What scripts the shell should accept and what commands they are: the    *)
(* grammar behind the tests of Shell_Interpreter, with every derivation of *)
(* a text instead of a scan for the right token, and with the role of a    *)
(* word or a newline read off its neighbours instead of the lexer's state. *)
(***************************************************************************)
EXTENDS ShellParse

(* The numbers up to n that satisfy P, in order. *)
Where(n, P(_)) == SelectSeq([k \in 1..n |-> k], P)

(* The lexemes of a text without blanks and comments. *)
Hash(text, j) == text[j] = "#" /\ (j = 1 \/ text[j - 1] \in Blanks \cup Delims \cup {NL, "#"})
Comment(text, k) == \E j \in 1..k : Hash(text, j) /\ \A i \in j..k : text[i] # NL
Lexemes(text) ==
  LET at == Where(Len(text), LAMBDA k : text[k] \notin Blanks /\ ~Comment(text, k))
  IN [k \in 1..Len(at) |-> text[at[k]]]

(* A word is a keyword where only keywords precede it in its command. *)
Keyword(X, k) ==
  /\ X[k] \in Keywords
  /\ \A j \in 1..k : (\A i \in j..k : X[i] \notin Delims \cup {NL}) => X[j] \in Keywords
Kind(X, k) == IF IsWord(X[k]) /\ ~Keyword(X, k) THEN "WORD" ELSE X[k]
Depth(X, k) == Cardinality({j \in 1..k : Kind(X, j) \in Openers}) - Cardinality({j \in 1..k : Kind(X, j) \in Closers})

(* A newline is a `;' within a compound command, unless it is not needed. *)
Needless(X, k) ==
  k = 1 \/ Kind(X, k - 1) \in Openers \cup {"then", "else", "do", "|", NL} \/ (X[k - 1] = ";" /\ Depth(X, k) > 0)
Token(X, k) == [type |-> IF X[k] = NL /\ Depth(X, k) > 0 THEN ";" ELSE Kind(X, k), str |-> X[k]]
Needed(X) == LET at == Where(Len(X), LAMBDA k : X[k] # NL \/ ~Needless(X, k))
             IN [k \in 1..Len(at) |-> Token(X, at[k])]

-----------------------------------------------------------------------------
(* All trees that the tokens i to j of T stand for.                        *)
Tree(type, kids, words, in, out) == [type |-> type, kids |-> kids, words |-> words, in |-> in, out |-> out]
IsType(T, k, type) == k \in DOMAIN T /\ T[k].type = type
Each(T, type, i, j) == {k \in i..j : T[k].type = type}

RECURSIVE List(_, _, _)

Block(T, i, j) == List(T, i, j) \cup (IF j > i /\ IsType(T, j, ";") THEN List(T, i, j - 1) ELSE {})
Pairs(A, B) == {<<a, b>> : a \in A, b \in B}

Cores(T, i, j) ==   \* <<type, kids, words>>
  (IF \A k \in i..j : IsType(T, k, "WORD") THEN {<<"SIMPLE", <<>>, [k \in 1..(j - i + 1) |-> T[i + k - 1].str]>>} ELSE {})
  \cup (IF ~IsType(T, i, "(") \/ ~IsType(T, j, ")") THEN {} ELSE {<<"SUBSHELL", <<a>>, <<>>>> : a \in Block(T, i + 1, j - 1)})
  \cup (IF ~IsType(T, i, "if") \/ ~IsType(T, j, "fi") THEN {}
        ELSE UNION {{<<"IF", p, <<>>>> : p \in Pairs(Block(T, i + 1, t - 1), Block(T, t + 1, j - 1))}
                    \cup UNION {{<<"IF", p \o <<c>>, <<>>>> :
                           p \in Pairs(Block(T, i + 1, t - 1), Block(T, t + 1, l - 1)), c \in Block(T, l + 1, j - 1)}
                           : l \in Each(T, "else", t, j)}
                    : t \in Each(T, "then", i, j)})
  \cup (IF ~(IsType(T, i, "while") \/ IsType(T, i, "until")) \/ ~IsType(T, j, "done") THEN {}
        ELSE UNION {{<<IF IsType(T, i, "while") THEN "WHILE" ELSE "UNTIL", p, <<>>>> :
                      p \in Pairs(Block(T, i + 1, d - 1), Block(T, d + 1, j - 1))} : d \in Each(T, "do", i, j)})

(* At most one redirection each way, in either order. *)
Redirects(T, i, j) ==
  LET Way(k, way) == IsType(T, k, way) /\ IsType(T, k + 1, "WORD")
  IN CASE j = i - 1 -> {<<"", "">>}
       [] j = i + 1 /\ Way(i, "<") -> {<<T[i + 1].str, "">>}
       [] j = i + 1 /\ Way(i, ">") -> {<<"", T[i + 1].str>>}
       [] j = i + 3 /\ Way(i, "<") /\ Way(i + 2, ">") -> {<<T[i + 1].str, T[i + 3].str>>}
       [] j = i + 3 /\ Way(i, ">") /\ Way(i + 2, "<") -> {<<T[i + 3].str, T[i + 1].str>>}
       [] OTHER -> {}

Element(T, i, j) ==
  UNION {{Tree(c[1], c[2], c[3], r[1], r[2]) : c \in Cores(T, i, k), r \in Redirects(T, k + 1, j)} : k \in i..j}

RECURSIVE Pipeline(_, _, _)
Pipeline(T, i, j) ==
  Element(T, i, j) \cup UNION {{Tree("PIPE", p, <<>>, "", "") :
    p \in Pairs(Pipeline(T, i, k - 1), Element(T, k + 1, j))} : k \in Each(T, "|", i, j)}
List(T, i, j) ==
  Pipeline(T, i, j) \cup UNION {{Tree("SEQUENCE", p, <<>>, "", "") :
    p \in Pairs(List(T, i, k - 1), Pipeline(T, k + 1, j))} : k \in Each(T, ";", i, j)}

(* The complete commands of a text, each as the set of its trees. *)
Meant(text) ==
  LET T == Needed(Lexemes(text))
      ends == Where(Len(T) + 1, LAMBDA k : IF k > Len(T) THEN k > 1 /\ ~IsType(T, k - 1, NL) ELSE IsType(T, k, NL))
  IN [n \in 1..Len(ends) |-> Block(T, IF n = 1 THEN 1 ELSE ends[n - 1] + 1, ends[n] - 1)]

-----------------------------------------------------------------------------
(* Command c of what make_command_stream returned, as a tree. *)
RECURSIVE TreeOf(_, _)
TreeOf(node, c) ==
  LET n == node[c]
  IN Tree(n.type, [k \in DOMAIN n.kids |-> TreeOf(node, n.kids[k])], n.words, n.in, n.out)

(* A text is read as it is meant: it is refused if one of its commands can *)
(* not be derived, and otherwise its commands are the only ones that can.  *)
ReadAsMeant(text, s) ==
  LET meant == Meant(text)
  IN IF s.ok THEN /\ Len(s.top) = Len(meant)
                  /\ \A n \in DOMAIN s.top : meant[n] = {TreeOf(s.node, s.top[n])}
     ELSE \E n \in DOMAIN meant : meant[n] = {}

(* The layouts that the tokenizer is up to: not an operator as the first   *)
(* character, no newline after `else', nothing but the operator between    *)
(* `|', or within a compound command `;' or a newline, and a newline,      *)
(* blanks after `<' and `>' only before a word, and after the last newline *)
(* token not just one token.                                               *)
Plain(text) ==
  /\ text[1] \notin Delims \cup Angles
  /\ LET T == Needed(Lexemes(text))  n == Len(T)
     IN n > 1 /\ T[n - 1].type = NL => T[n].type = NL
  /\ \A k \in 2..Len(text) :
       text[k] = NL => LET X == Lexemes(SubSeq(text, 1, k - 1))  n == Len(X)
                       IN n > 0 => /\ Kind(X, n) # "else"
                                   /\ X[n] = "|" \/ (X[n] \in {";", NL} /\ Depth(X, n) > 0)
                                        => text[k - 1] = X[n] /\ ~Comment(text, k - 1)
  /\ \A k \in 2..Len(text) : text[k - 1] \in Angles /\ text[k] \in Blanks =>
       \E l \in k..Len(text) : IsWord(text[l]) /\ \A i \in k..(l - 1) : text[i] \in Blanks
=============================================================================
