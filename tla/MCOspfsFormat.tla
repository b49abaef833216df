--------------------------- MODULE MCOspfsFormat ---------------------------
(* Small hosts for ospfsformat. *)
EXTENDS OspfsFormat

File(n, c)      == [name |-> <<n>>, type |-> "reg", content |-> c, host_ino |-> 0, kids |-> <<>>]
Linked(n, c, i) == [File(n, c) EXCEPT !.host_ino = i]
Sym(n, c, i)    == [name |-> <<n>>, type |-> "sym", content |-> c, host_ino |-> i, kids |-> <<>>]
Dir(n, k)       == [name |-> <<n>>, type |-> "dir", content |-> <<>>, host_ino |-> 0, kids |-> k]
Named(e, n)     == [e EXCEPT !.name = n]

Long(n) == [k \in 1..n |-> k]
Hosts == {
  \* empty, exact, short and long files; the last reaches indirect2
  <<File("a", <<>>), File("b", <<1, 2>>), File("c", <<1, 2, 3>>), File("d", Long(9))>>,
  \* the largest file, and one too large
  <<File("a", Long(14)), File("b", <<3>>)>>,
  <<File("b", <<3>>), File("a", Long(15))>>,
  \* links of one file in two directories, equal files, links of a link
  <<Linked("a", <<1>>, 7), Dir("d", <<Linked("e", <<1>>, 7), File("f", <<1>>), Sym("g", <<4>>, 8)>>),
    Sym("h", <<4>>, 8), Sym("i", <<4>>, 0)>>,
  \* what is passed over
  <<Named(Dir("x", <<>>), <<".">>), Named(Dir("x", <<>>), <<".", ".">>), Named(Dir("x", <<File("a", <<1>>)>>), <<"C", "V", "S">>),
    [File("p", <<>>) EXCEPT !.type = "fifo"], Sym("l", <<1, 2, 3>>, 0), File("z", <<2>>)>>,
  \* a name too long
  <<File("a", <<1>>), Named(File("x", <<1>>), <<"l", "o", "n", "g", "e">>)>>,
  \* directories one in another, entries after each
  <<Dir("a", <<Dir("b", <<Dir("c", <<File("f", Long(9))>>), File("g", Long(3))>>), File("h", <<5>>)>>), File("i", <<6>>)>>,
  \* a directory that needs its indirect blocks, written between others
  <<Dir("d", [k \in 1..9 |-> File(<<"p", "q", "r", "s", "t", "u", "v", "w", "x">>[k], IF k = 5 THEN <<k>> ELSE <<>>)]),
    File("e", <<1>>), Dir("f", <<>>)>> }

TheJobs == {[r |-> TRUE, c |-> c, entries |-> h, l |-> l] : c \in BOOLEAN, h \in Hosts,
              l \in {<<>>, <<[name |-> <<"m">>, content |-> <<1>>], [name |-> <<"n">>, content |-> <<2>>]>>}}
           \cup {[r |-> FALSE, c |-> c, entries |-> <<Linked("a", <<1>>, 7), Linked("b", <<1>>, 7), File("c", Long(4))>>, l |-> <<>>] : c \in BOOLEAN}
=============================================================================
