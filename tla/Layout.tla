------------------------------- MODULE Layout -------------------------------
(***************************************************************************)
(* How the message readers and writers of udem.c, uqwd.c, udm2.c and udm3.c*)
(* are written down here: as tables, one row for each number or string in  *)
(* the order of the bytes.  A row tells                                    *)
(*   n   the down node (or, if h is "", the local variable) it is kept in, *)
(*   r   the kind it is read as,     h  the hint the node gets,            *)
(*   x   how many of them there are, on the mask bits that say it is there.*)
(* Rows with one name fill one node: ReadTable appends, WriteTable takes   *)
(* the values out again.  A reader and a writer have a table each.         *)
(***************************************************************************)
EXTENDS Binblock, TLC

Always == [f |-> "", set |-> {}, clear |-> {}, in |-> {}]
Row(n, r, h, x, on) == [n |-> n, r |-> r, h |-> h, x |-> x, on |-> on]

F(n, k)      == Row(n, k, k, 1, Always)     \* always there
V(n, k, x)   == Row(n, k, k, x, Always)     \* x of them
H(n, k, h)   == Row(n, k, h, 1, Always)     \* written with another hint
L(n, k)      == Row(n, k, "", 1, Always)    \* a local variable
B(n, k, f, i) == Row(n, k, k, 1, [Always EXCEPT !.f = f, !.set = {i}])
X(n, k, f, S) == Row(n, k, k, 1, [Always EXCEPT !.f = f, !.clear = S])
T(n, k, f, S) == Row(n, k, k, 1, [Always EXCEPT !.f = f, !.in = S])
Flag(n, f, i) == Row(n, "byte", "byte", 0, [Always EXCEPT !.f = f, !.set = {i}])
As(row, h)    == [row EXCEPT !.h = h]
Times(row, x) == [row EXCEPT !.x = x]
Among(row, f, i) == [row EXCEPT !.on = [Always EXCEPT !.f = f, !.set = {i}]]

IsThere(on, v) ==
  IF on.f = "" THEN TRUE
  ELSE IF on.f \notin DOMAIN v THEN on.set = {} /\ on.in = {}
  ELSE IF on.in # {} THEN v[on.f][1] \in on.in
  ELSE on.set \subseteq v[on.f][1] /\ on.clear \cap v[on.f][1] = {}

Got(v, n) == IF n \in DOMAIN v THEN v[n] ELSE <<>>
Put(v, n, x) == (n :> Got(v, n) \o x) @@ v

\* No reader looks where the block ends.  One that goes on behind it gets to the
\* place Outside: what it finds there is left over in the buffer, and is not told.
Outside == 0
KindBytes(k) == CASE k \in {"long", "float", "bits32"} -> 4
                  [] k \in ShortKinds \cup {"ushort", "bits16"} -> 2 [] OTHER -> 1
Inside(k, b, p) ==
  /\ p # Outside
  /\ IF k \in {"string", "strings"} THEN p + StringMax <= Len(b) \/ \E i \in p .. Len(b) : b[i] = 0
     ELSE p + KindBytes(k) <= Len(b) + 1

\* x values of kind k, or strings up to an empty one.
AnotherUnlessEmpty(a, g) == IF g.v = <<>> THEN [a EXCEPT !.done = TRUE, !.p = g.p] ELSE Another(a, g)
ReadMany(k, x, b, p) ==
  IF k = "strings"
  THEN FoldLeft(LAMBDA a, i : IF a.done THEN a
                              ELSE IF ~ Inside(k, b, a.p) THEN [a EXCEPT !.done = TRUE, !.p = Outside]
                              ELSE AnotherUnlessEmpty(a, get_next_string(b, a.p)),
                [v |-> <<>>, p |-> p, done |-> FALSE], b)
  ELSE FoldLeft(LAMBDA a, i : IF Inside(k, b, a.p) THEN Another(a, ReadKind(k, b, a.p))
                              ELSE [a EXCEPT !.p = Outside],
                Nothing(p), [i \in 1 .. x |-> i])

\* The variables v after the rows of tab were read from p, and the next place;
\* the rows behind one that leads outside are not followed.
Filled(s, row, g) == [v |-> Put(s.v, row.n, g.v), p |-> g.p]
ReadTable(tab, v, b, p) ==
  FoldLeft(LAMBDA s, row : IF s.p # Outside /\ IsThere(row.on, s.v) THEN Filled(s, row, ReadMany(row.r, row.x, b, s.p))
                           ELSE s,
           [v |-> v, p |-> p], tab)

Names(tab) == FoldLeft(LAMBDA s, row : IF row.n \in Range(s) \/ row.h = "" THEN s
                                       ELSE Append(s, row.n), <<>>, tab)
HintOf(tab, n) == LET i == SelectInSeq(tab, LAMBDA row : row.n = n)
                  IN  IF i = 0 THEN "" ELSE tab[i].h
Cmd(n, h, v) == [n |-> n, h |-> h, v |-> v]
\* The down nodes, linked in the order of names.
DownOf(tab, names, v) ==
  LET there == SelectSeq(names, LAMBDA n : n \in DOMAIN v)
  IN  [i \in DOMAIN there |-> Cmd(there[i], HintOf(tab, there[i]), v[there[i]])]

Msg(type, id, down) == [type |-> type, id |-> id, down |-> down]
Read(m, p) == [m |-> m, p |-> p]

\* A message whose down nodes are in the order of the bytes, and one where not.
MsgOf(type, id, tab, names, s) == Read(Msg(type, id, DownOf(tab, names, s.v)), s.p)
ReadMsgIn(type, id, tab, names, v, b, p) ==
  MsgOf(type, id, tab, names, ReadTable(tab, v, b, p))
ReadMsg(type, id, tab, b, p) ==
  ReadMsgIn(type, id, tab, Names(tab), <<>>, b, p)

(***************************************************************************)
(* A writer steps once through the down nodes, in the order of names: the  *)
(* next of the names that occurs at all is taken to be the next node.      *)
(***************************************************************************)
Has(m, n) == \E i \in DOMAIN m.down : m.down[i].n = n
Take(names, m) ==
  LET there == SelectSeq(names, LAMBDA n : Has(m, n))
  IN  [n \in Range(there) |-> m.down[SelectInSeq(there, LAMBDA a : a = n)]]

\* A row is written when its node is there; a mask, when one of its bits is used
\* or when another row asks for the same bit of the mask before it.
RowUsed(tab, taken, row) ==
  \/ row.on = Always
  \/ row.n \in DOMAIN taken
  \/ row.h = "" /\ \E i \in DOMAIN tab : /\ tab[i].on.f = row.n \/ tab[i].on = row.on
                                         /\ tab[i].n \in DOMAIN taken
\* The bits of mask f: those of the rows that are written, and some more.
MaskBits(tab, taken, f) ==
  UNION {tab[i].on.set : i \in {j \in DOMAIN tab : /\ tab[j].on.f = f
                                                  /\ RowUsed(tab, taken, tab[j])}}
WriteRowsAnd(tab, taken, more) ==
  FoldLeft(LAMBDA s, row :
             IF ~ RowUsed(tab, taken, row) THEN s
             ELSE IF row.h = ""
             THEN LET bits == MaskBits(tab, taken, row.n)
                              \cup (IF row.n \in DOMAIN more THEN more[row.n] ELSE {})
                  IN  [s EXCEPT !.b = @ \o WriteHint(row.r, bits)]
             ELSE LET h == IF row.h = "node" THEN taken[row.n].h ELSE row.h
                      x == SubSeq(s.left[row.n], 1, row.x)
                  IN  [b |-> s.b \o WriteArguments(Cmd(row.n, h, x)),
                       left |-> [s.left EXCEPT ![row.n] = SubSeq(@, row.x + 1, Len(@))]],
           [b |-> <<>>, left |-> [n \in DOMAIN taken |-> taken[n].v]], tab).b
WriteRows(tab, taken) == WriteRowsAnd(tab, taken, <<>>)
WriteTable(tab, names, m) == WriteRows(tab, Take(names, m))
=============================================================================
