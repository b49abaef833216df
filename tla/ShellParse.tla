----------------------------- MODULE ShellParse ----------------------------
(***************************************************************************)
(* From the text of a script to its commands: the tokenizer                *)
(* (Shell_Interpreter/tokenizer.c), the parser (parser.c) and              *)
(* make_command_stream (read-command.c), as functions of the text.  A text *)
(* is a sequence of lexemes: whole words, and the characters that are not  *)
(* word characters.  No two words stand side by side.                      *)
(***************************************************************************)
EXTENDS Integers, Sequences, FiniteSets, FiniteSetsExt, SequencesExt

NL == "\n"
Blanks    == {" ", "\t"}
Angles    == {"<", ">"}
Delims    == {"|", ";", "(", ")"}
Keywords  == {"if", "then", "fi", "else", "while", "until", "do", "done"}
Openers   == {"if", "while", "until", "("}
Closers   == {"fi", "done", ")"}
BadChars  == {"&"}    \* standing for every other character
IsWord(x) == x \notin Blanks \cup Angles \cup Delims \cup BadChars \cup {NL, "#"}

-----------------------------------------------------------------------------
(* The lexer's static variables: tokens so far, the unfinished word,       *)
(* is_command, simple_command, last_c, last_special, consume_switch, and   *)
(* whether error() has ended the program.  "" stands for '\0'.             *)
lexer_init == [tok |-> <<>>, word |-> "", is_command |-> 0, simple |-> FALSE,
  last_c |-> "", last_special |-> "", comment |-> FALSE, ok |-> TRUE]

failed(L) == [L EXCEPT !.ok = FALSE]

(* The type of tokens[k-1].  Outside the list the program reads memory it  *)
(* has not written, fresh from the system, where 0 is TOK_IF.              *)
TypeAt(T, k) == IF k \in DOMAIN T THEN T[k].type ELSE "if"

(* lexer_assign_type, for the word just finished *)
lexer_assign_type(L) ==
  IF L.simple \/ (IsWord(L.word) /\ L.word \notin Keywords) THEN "WORD" ELSE L.word

(* lexer_putchar_i('\0') *)
finish(L) ==
  LET t == lexer_assign_type(L)
  IN IF L.word = "" THEN L
     ELSE [L EXCEPT !.word = "", !.simple = L.simple \/ t = "WORD",
            !.tok = Append(@, [type |-> t, str |-> L.word]),
            !.is_command = @ + (IF t \in Openers THEN 1 ELSE IF t \in Closers THEN -1 ELSE 0)]

(* The token c on its own, which ends a simple command. *)
delimiter(L, c) == finish([finish(L) EXCEPT !.simple = FALSE, !.word = c])

is_reserved(type) == type \in {"while", "until", "if", "(", "then", "do", NL}

(* case '\n'; the fall through to the case after it included *)
newline(L) ==
  LET M == [finish(L) EXCEPT !.simple = FALSE]
  IN IF L.last_c \in Angles THEN failed(L)
     ELSE IF \/ L.last_c \in {NL, "(", "|", ""}
             \/ is_reserved(TypeAt(M.tok, Len(M.tok)))
             \/ L.last_special = ";" /\ M.is_command # 0
     THEN M
     ELSE delimiter(M, IF M.is_command > 0 THEN ";" ELSE NL)

(* lexer_putchar for each character of the lexeme c; at the very beginning *)
(* last_c is '\0', which strchr finds in every string.                     *)
lexer_putchar(L, c) ==
  IF ~L.ok \/ (L.comment /\ c # NL) THEN L
  ELSE LET N == CASE c \in Blanks -> finish(L)
                  [] c \in Angles -> IF L.last_c \in Angles \cup {""} THEN failed(L)
                                     ELSE [delimiter(L, c) EXCEPT !.simple = TRUE]
                  [] c = NL       -> newline([L EXCEPT !.comment = FALSE])
                  [] c \in Delims -> IF L.last_c \in Angles \cup {""} THEN failed(L) ELSE delimiter(L, c)
                  [] c = "#"      -> IF L.last_c \in Blanks \cup Delims \cup {NL, ""}
                                     THEN [L EXCEPT !.simple = FALSE, !.comment = TRUE] ELSE failed(L)
                  [] IsWord(c)    -> [L EXCEPT !.word = c]
                  [] OTHER        -> failed(L)
       IN [N EXCEPT !.last_c = c, !.last_special = IF c \in Blanks \cup {NL} THEN @ ELSE c]

(* Every character of the file, then '\0' for the last token. *)
tokens(text) == LET L == FoldLeft(lexer_putchar, lexer_init, text) IN IF L.comment THEN L ELSE finish(L)

-----------------------------------------------------------------------------
(* The parser works on the tokens from number s to number e - 1.  A tree   *)
(* is a sequence of commands, subcommands before their command, the root   *)
(* last; base commands stand before it.  <<>> means error() was called.    *)
Command(type, kids, words) ==
  [type |-> type, kids |-> kids, words |-> words, in |-> "", out |-> ""]
SyntaxError == <<>>

Opened(T, i, j) == Cardinality({k \in i..j : TypeAt(T, k) \in Openers})
                   - Cardinality({k \in i..j : TypeAt(T, k) \in Closers})
LastIn(S)  == IF S = {} THEN 0 ELSE Max(S)
FirstIn(S) == IF S = {} THEN 0 ELSE Min(S)

(* Mutant: the first such token, not the last. *)
first_of(T, sep, s, e) ==
  FirstIn({k \in s..(e - 1) : TypeAt(T, k) = sep /\ Opened(T, k + 1, e - 1) = 0})

(* The last token sep that is not inside a compound command. *)
last_of(T, sep, s, e) ==
  LastIn({k \in s..(e - 1) : TypeAt(T, k) = sep /\ Opened(T, k + 1, e - 1) = 0})

(* Where the scans of the magical_* parsers meet a token of that type that *)
(* belongs to the command at s itself; they look one token past the end.   *)
Own(T, type, s, e) == {k \in (s + 1)..e : TypeAt(T, k) = type /\ Opened(T, s + 1, k - 1) = 0}

(* add_redirects, with the tokens s to e - 1 after command c *)
RECURSIVE add_redirects(_, _, _, _)
add_redirects(T, c, s, e) ==
  CASE s >= e -> <<c>>
    [] TypeAt(T, s) = "<" /\ e > s + 1 /\ c.in = ""  -> add_redirects(T, [c EXCEPT !.in = T[s + 1].str], s + 2, e)
    [] TypeAt(T, s) = ">" /\ e > s + 1 /\ c.out = "" -> add_redirects(T, [c EXCEPT !.out = T[s + 1].str], s + 2, e)
    [] OTHER -> SyntaxError

RECURSIVE parse(_, _, _, _)
check_fail_parse(T, s, e, base) == parse(T, s, IF TypeAt(T, e - 1) = ";" THEN e - 1 ELSE e, base)

subcommand(strip, T, range, base) ==
  IF strip THEN check_fail_parse(T, range[1], range[2], base) ELSE parse(T, range[1], range[2], base)

(* A command whose subcommands are the given ranges of tokens, each parsed *)
(* with or without its last `;', and what follows it from token r on.      *)
compound(strip, T, type, ranges, r, e, base) ==
  LET n == Len(ranges)
      sub[k \in 0..n] ==
        IF k = 0 THEN [node |-> <<>>, kids |-> <<>>, ok |-> TRUE]
        ELSE LET sofar == sub[k - 1]
                 new == IF sofar.ok THEN subcommand(strip, T, ranges[k], base + Len(sofar.node)) ELSE SyntaxError
             IN [node |-> sofar.node \o new, kids |-> Append(sofar.kids, base + Len(sofar.node) + Len(new)),
                 ok |-> new # SyntaxError]
      root == add_redirects(T, Command(type, sub[n].kids, <<>>), r, e)
  IN IF sub[n].ok /\ root # SyntaxError THEN sub[n].node \o root ELSE SyntaxError

magical_if_parser(T, s, e, base) ==
  LET fi   == FirstIn(Own(T, "fi", s, e) \ {s + 1})
      then == LastIn({k \in Own(T, "then", s, e) : s + 1 < k /\ k < fi})
      else == LastIn({k \in Own(T, "else", s, e) : s + 1 < k /\ k < fi})
  IN IF fi = 0 \/ then = 0 THEN SyntaxError
     ELSE compound(TRUE, T, "IF",
            <<<<s + 1, then>>>> \o (IF else = 0 THEN <<<<then + 1, fi>>>>
                                    ELSE <<<<then + 1, else>>, <<else + 1, fi>>>>), fi + 1, e, base)

magical_while_until_parser(T, s, e, base) ==
  LET done == FirstIn(Own(T, "done", s, e) \ {s + 1})
      do   == LastIn({k \in Own(T, "do", s, e) : s + 1 < k /\ k < done})
  IN IF done = 0 \/ do = 0 THEN SyntaxError
     ELSE compound(TRUE, T, IF TypeAt(T, s) = "until" THEN "UNTIL" ELSE "WHILE",
            <<<<s + 1, do>>, <<do + 1, done>>>>, done + 1, e, base)

magical_subshell_parser(T, s, e, base) ==
  LET rparen == FirstIn(Own(T, ")", s, e))
  IN IF rparen = 0 THEN SyntaxError
     ELSE compound(TRUE, T, "SUBSHELL", <<<<s + 1, rparen>>>>, rparen + 1, e, base)

magical_word_parser(T, s, e) ==
  LET index == Min({k \in s..(e + 1) : k = e + 1 \/ TypeAt(T, k) # "WORD"})
  IN add_redirects(T, Command("SIMPLE", <<>>, [k \in 1..(index - s) |-> T[s + k - 1].str]), index, e)

(* Of no tokens at all it calls error() too, since no command starts with  *)
(* the token that ends an empty range.                                     *)
parse(T, s, e, base) ==
  LET sc == last_of(T, ";", s, e)  pipe == last_of(T, "|", s, e)
  IN CASE TypeAt(T, e - 1) \in {";", "|", "<", ">"} -> SyntaxError
       [] sc # 0   -> compound(FALSE, T, "SEQUENCE", <<<<s, sc>>, <<sc + 1, e>>>>, e, e, base)
       [] pipe # 0 -> compound(FALSE, T, "PIPE", <<<<s, pipe>>, <<pipe + 1, e>>>>, e, e, base)
       [] TypeAt(T, s) = "if" -> magical_if_parser(T, s, e, base)
       [] TypeAt(T, s) \in {"while", "until"} -> magical_while_until_parser(T, s, e, base)
       [] TypeAt(T, s) = "(" -> magical_subshell_parser(T, s, e, base)
       [] TypeAt(T, s) = "WORD" -> magical_word_parser(T, s, e)
       [] OTHER -> SyntaxError

-----------------------------------------------------------------------------
(* make_command_stream: one command after the other, each ended by a       *)
(* newline token.  Nothing is read from the last token on.                 *)
NoScript == [ok |-> FALSE, node |-> <<>>, top |-> <<>>]

RECURSIVE commands(_, _, _)
commands(T, start, sofar) ==
  LET index == Min({k \in start..(Len(T) + 1) : k = Len(T) + 1 \/ TypeAt(T, k) = NL})
      new   == check_fail_parse(T, start, index, Len(sofar.node))
      all   == [ok |-> TRUE, node |-> sofar.node \o new, top |-> Append(sofar.top, Len(sofar.node) + Len(new))]
  IN CASE new = SyntaxError      -> NoScript
       [] index >= Len(T) - 1    -> all
       [] OTHER                  -> commands(T, index + 1, all)

make_command_stream(text) ==
  LET L == tokens(text)  empty == [NoScript EXCEPT !.ok = TRUE]
  IN IF ~L.ok THEN NoScript ELSE IF L.tok = <<>> THEN empty ELSE commands(L.tok, 1, empty)
=============================================================================
