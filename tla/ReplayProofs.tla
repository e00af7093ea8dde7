---------------------------- MODULE ReplayProofs ----------------------------
(***************************************************************************)
(* Theorems of Replay, for any web, anything that a user does there, any   *)
(* number of tests and any width of the batches: the types of Capture and  *)
(* Replay, what an exit of the container says of the tests, what the       *)
(* results of a judged test say of its steps, and that what was recorded   *)
(* replays.                                                                *)
(*                                                                         *)
(* The last is about four things that are made of each other: what the     *)
(* user did, the steps that were captured of it, the test that these were  *)
(* converted into and what a browser does that is told its steps. They are *)
(* related by what a sequence of steps does to a browser that has no page  *)
(* yet (Yields). The recording keeps that what was captured yields what    *)
(* the user did (RecordInv), every way to merge steps keeps what they      *)
(* yield (YieldsConverted), and a runner of the container goes the way of  *)
(* its test (ReplaysInv). What a loop computes is reasoned about by the    *)
(* least number of turns after which it would be wrong (Induct).           *)
(***************************************************************************)
EXTENDS Replay, FiniteSetTheorems, SequenceTheorems, WellFoundedInduction, TLAPS

(***************************************************************************)
(* Numbers, sequences and loops                                            *)
(***************************************************************************)

\* The least number of a set.
LEMMA Least ==
  ASSUME NEW S, S \subseteq Nat, S # {}
  PROVE  \E x \in S : \A y \in S : x <= y
<1> DEFINE R == OpToRel(<, Nat)
<1>1. IsWellFoundedOn(R, Nat)
  BY NatLessThanWellFounded
<1>2. \A x, y \in Nat : <<y, x>> \in R <=> y < x
  BY DEF OpToRel
<1> HIDE DEF R
<1>3. PICK x \in S : \A y \in S : ~(<<y, x>> \in R)
  BY <1>1, WFMin
<1>4. \A y \in S : ~(y < x)
  BY <1>2, <1>3
<1> QED
  BY <1>4

\* Induction, for a set in the place of a predicate.
LEMMA Induct ==
  ASSUME NEW S, 0 \in S, \A n \in Nat : n \in S => n + 1 \in S
  PROVE  Nat \subseteq S
<1> DEFINE T == Nat \ S
<1>1. SUFFICES ASSUME T # {} PROVE FALSE
  OBVIOUS
<1>2. PICK x \in T : \A y \in T : x <= y
  <2>1. T \subseteq Nat
    OBVIOUS
  <2> HIDE DEF T
  <2> QED
    BY <1>1, <2>1, Least
<1>3. x # 0 /\ x \in Nat /\ x - 1 \in Nat /\ ~(x <= x - 1)
  OBVIOUS
<1> QED
  BY <1>2, <1>3

LEMMA KeptIs ==
  ASSUME NEW x \in Kept
  PROVE  /\ x \in Step
         /\ x.type \in {"navigate", "click", "type", "press"}
         /\ x.point \in Points \cup {None} /\ x.sel \in Points \cup {None}
         /\ x.text \in Seq(Chars) /\ x.page \in Pages \cup {None} /\ x.rel \in BOOLEAN
         /\ x.type = "click" => (x.sel = None) # (x.point = None)
BY DEF Kept, Step

LEMMA ReText ==
  ASSUME NEW x \in Kept, NEW text \in Seq(Chars)
  PROVE  /\ [x EXCEPT !.text = text] \in Kept
         /\ LET y == [x EXCEPT !.text = text] IN
              y.type = x.type /\ y.point = x.point /\ y.sel = x.sel /\ y.text = text /\ y.page = x.page
BY DEF Kept, Step

\* The last element of a sequence, and what was before it.
LEMMA FrontLast ==
  ASSUME NEW S, NEW c \in Seq(S), c # <<>>
  PROVE  /\ Front(c) \in Seq(S) /\ Last(c) \in S /\ c = Append(Front(c), Last(c))
         /\ Len(Front(c)) = Len(c) - 1 /\ Len(c) \in Nat \ {0}
         /\ \A i \in 1..(Len(c) - 1) : Front(c)[i] = c[i]
<1>1. Len(c) \in Nat \ {0}
  BY EmptySeq
<1>2. \A i \in 1..(Len(c) - 1) : c[i] \in S
  BY <1>1, ElementOfSeq
<1>3. /\ Front(c) \in Seq(S) /\ Len(Front(c)) = Len(c) - 1
      /\ \A i \in 1..(Len(c) - 1) : Front(c)[i] = c[i]
  <2> DEFINE n == Len(c) - 1
  <2>1. n \in Int /\ n \in Nat /\ n - 1 + 1 = n /\ \A i \in 1..n : 1 + i - 1 = i /\ c[i] \in S
    BY <1>1, <1>2
  <2>2. Front(c) = SubSeq(c, 1, n)
    BY DEF Front
  <2> HIDE DEF n
  <2>3. /\ SubSeq(c, 1, n) \in Seq(S) /\ Len(SubSeq(c, 1, n)) = IF 1 <= n THEN n - 1 + 1 ELSE 0
        /\ \A i \in 1..(n - 1 + 1) : SubSeq(c, 1, n)[i] = c[1 + i - 1]
    BY <2>1, SubSeqProperties
  <2> QED
    BY <2>1, <2>2, <2>3 DEF n
<1>4. Last(c) \in S /\ Last(c) = c[Len(c)]
  BY <1>1, ElementOfSeq DEF Last
<1>5. /\ Append(Front(c), Last(c)) \in Seq(S) /\ Len(Append(Front(c), Last(c))) = Len(c)
      /\ \A i \in 1..Len(c) : Append(Front(c), Last(c))[i] = c[i]
  BY <1>1, <1>3, <1>4, AppendProperties
<1>6. c = Append(Front(c), Last(c))
  BY <1>1, <1>5, SeqEqual
<1> QED
  BY <1>1, <1>3, <1>4, <1>6

LEMMA MergeKeeps ==
  ASSUME NEW c \in Seq(Kept), NEW x \in Kept
  PROVE  Merge(c, x) \in Seq(Kept) /\ Merge(c, x) # <<>>
<1>1. Append(c, x) \in Seq(Kept) /\ Append(c, x) # <<>>
  BY AppendProperties
<1>2. CASE c # <<>> /\ x.type = "type" /\ Last(c).type = "type"
  <2> DEFINE y == [Last(c) EXCEPT !.text = @ \o x.text]
  <2>1. Last(c) \in Kept /\ Front(c) \in Seq(Kept)
    BY <1>2, FrontLast
  <2>2. Last(c).text \o x.text \in Seq(Chars)
    BY <2>1, KeptIs
  <2>3. y \in Kept
    BY <2>1, <2>2, ReText
  <2>4. Merge(c, x) = Append(Front(c), y)
    BY <1>2 DEF Merge
  <2> HIDE DEF y
  <2> QED
    BY <2>1, <2>3, <2>4
<1>3. CASE c # <<>> /\ x.type = "navigate" /\ Last(c).type = "navigate" /\ Last(c).page = x.page
  BY <1>3 DEF Merge
<1>4. CASE ~(c # <<>> /\ x.type = "type" /\ Last(c).type = "type")
           /\ ~(c # <<>> /\ x.type = "navigate" /\ Last(c).type = "navigate" /\ Last(c).page = x.page)
  BY <1>1, <1>4 DEF Merge
<1> QED
  BY <1>2, <1>3, <1>4

\* What the loop of collapseSteps() has made of the first i steps, for each i up to n.
Makes(s, n, f) ==
  /\ f \in [0..n -> Seq(Kept)] /\ f[0] = <<>>
  /\ \A i \in 1..n : f[i] = Merge(f[i - 1], s[i])

LEMMA MakesMore ==
  ASSUME NEW s \in Seq(Kept), NEW n \in Nat, n + 1 <= Len(s), NEW f, Makes(s, n, f)
  PROVE  \E g : Makes(s, n + 1, g)
<1> DEFINE e == Merge(f[n], s[n + 1])
           g == [i \in 0..(n + 1) |-> IF i = n + 1 THEN e ELSE f[i]]
<1>1. /\ f \in [0..n -> Seq(Kept)] /\ f[0] = <<>>
      /\ \A i \in 1..n : f[i] = Merge(f[i - 1], s[i])
  BY DEF Makes
<1>2. f[n] \in Seq(Kept) /\ n + 1 \in 1..Len(s)
  BY <1>1
<1>3. s[n + 1] \in Kept
  BY <1>2, ElementOfSeq
<1>4. e \in Seq(Kept)
  BY <1>2, <1>3, MergeKeeps
<1> HIDE DEF e
<1>5. \A i \in 0..(n + 1) : i # n + 1 => i \in 0..n
  OBVIOUS
<1>6. g \in [0..(n + 1) -> Seq(Kept)]
  BY <1>1, <1>4, <1>5
<1>7. g[n + 1] = e /\ \A i \in 0..n : g[i] = f[i]
  OBVIOUS
<1> HIDE DEF g
<1>8. \A i \in 1..(n + 1) : /\ i - 1 \in 0..n
                            /\ i = n + 1 => i - 1 = n
                            /\ i # n + 1 => i \in 1..n /\ i \in 0..n
  OBVIOUS
<1>9. \A i \in 1..(n + 1) : g[i] = Merge(g[i - 1], s[i])
  BY <1>1, <1>7, <1>8 DEF e
<1>10. 0 \in 0..n
  OBVIOUS
<1>11. Makes(s, n + 1, g)
  BY <1>1, <1>6, <1>7, <1>9, <1>10 DEF Makes
<1> QED
  BY <1>11

LEMMA MakesAll ==
  ASSUME NEW s \in Seq(Kept)
  PROVE  \E f : Makes(s, Len(s), f)
<1> DEFINE S == {n \in Nat : n <= Len(s) => \E f : Makes(s, n, f)}
<1>1. 0 \in S
  <2> DEFINE f == [i \in 0..0 |-> <<>>]
  <2>1. f \in [0..0 -> Seq(Kept)] /\ f[0] = <<>> /\ \A i \in 1..0 : FALSE
    BY EmptySeq
  <2> HIDE DEF f
  <2>2. Makes(s, 0, f)
    BY <2>1 DEF Makes
  <2> QED
    BY <2>2
<1>2. ASSUME NEW n \in Nat, n \in S PROVE n + 1 \in S
  BY <1>2, MakesMore
<1> HIDE DEF S
<1>3. Nat \subseteq S
  BY <1>1, <1>2, Induct
<1> QED
  BY <1>3 DEF S

LEMMA CollapsedMakes ==
  ASSUME NEW s \in Seq(Kept)
  PROVE  \E u : Makes(s, Len(s), u) /\ Collapsed(s) = u[Len(s)]
<1> DEFINE N == Len(s)
           Loop(f) == f = [n \in 0..N |-> IF n = 0 THEN <<>> ELSE Merge(f[n - 1], s[n])]
           u == CHOOSE f : f = [n \in 0..N |-> IF n = 0 THEN <<>> ELSE Merge(f[n - 1], s[n])]
<1>0. N \in Nat /\ \A n \in 1..N : s[n] \in Kept
  BY ElementOfSeq
<1>1. PICK f : Makes(s, N, f)
  BY MakesAll
<1>2. /\ f \in [0..N -> Seq(Kept)] /\ f[0] = <<>>
      /\ \A i \in 1..N : f[i] = Merge(f[i - 1], s[i])
  BY <1>1 DEF Makes
<1>3. \A n \in 0..N : n # 0 => n \in 1..N
  BY <1>0
<1>4. Loop(f)
  <2> HIDE DEF N
  <2>1. \A n \in 0..N : f[n] = IF n = 0 THEN <<>> ELSE Merge(f[n - 1], s[n])
    BY <1>2, <1>3
  <2>2. f = [n \in 0..N |-> f[n]]
    BY <1>2
  <2>3. f = [n \in 0..N |-> IF n = 0 THEN <<>> ELSE Merge(f[n - 1], s[n])]
    BY <2>1, <2>2, Zenon
  <2> QED
    BY <2>3
<1>5. u = [n \in 0..N |-> IF n = 0 THEN <<>> ELSE Merge(u[n - 1], s[n])]
  BY <1>4
<1>6. Collapsed(s) = u[N]
  BY DEF Collapsed
<1> HIDE DEF u, N
<1>7. u[0] = <<>> /\ \A n \in 1..N : u[n] = Merge(u[n - 1], s[n])
  BY <1>0, <1>5
<1>8. \A n \in 0..N : u[n] \in Seq(Kept)
  <2> DEFINE S == {n \in Nat : n <= N => u[n] \in Seq(Kept)}
  <2>1. 0 \in S
    BY <1>7, EmptySeq
  <2>2. ASSUME NEW n \in Nat, n \in S PROVE n + 1 \in S
    <3> SUFFICES ASSUME n + 1 <= N PROVE u[n + 1] \in Seq(Kept)
      OBVIOUS
    <3>1. n + 1 \in 1..N /\ (n + 1) - 1 = n /\ u[n] \in Seq(Kept)
      BY <1>0, <2>2
    <3>2. u[n + 1] = Merge(u[n], s[n + 1])
      BY <1>7, <3>1
    <3> QED
      BY <1>0, <3>1, <3>2, MergeKeeps
  <2> HIDE DEF S
  <2>3. Nat \subseteq S
    BY <2>1, <2>2, Induct
  <2> QED
    BY <1>0, <2>3 DEF S
<1>9. Makes(s, N, u)
  BY <1>5, <1>7, <1>8 DEF Makes
<1> QED
  BY <1>6, <1>9 DEF N

(***************************************************************************)
(* What a browser does with steps                                          *)
(***************************************************************************)

\* A browser between two steps, and what has happened to the web.
Rested == {b \in Browser : b.to = None}
State  == [browser : Rested, effects : Seq(Effect)]
Blank  == [browser |-> NewRunner.browser, effects |-> <<>>]

Does(st, step) ==
  [browser |-> IF step.type = "navigate" THEN Loaded(st.browser, step.page)
               ELSE Settle(Acted(st.browser, step)),
   effects |-> st.effects \o Effects(st.browser, step)]

Can(st, step) ==
  \/ step.type = "navigate"
  \/ st.browser.page # None /\ (step.sel # None => Target(st.browser, step.sel) # {})

LEMMA BrowserIs ==
  /\ \A b \in Browser : /\ b.page \in Pages \cup {None} /\ b.focus \in Element \cup {None}
                        /\ b.to \in Pages \cup {None}
                        /\ b = [page |-> b.page, focus |-> b.focus, to |-> b.to]
  /\ \A p, t \in Pages \cup {None}, f \in Element \cup {None} :
       [page |-> p, focus |-> f, to |-> t] \in Browser
BY DEF Browser

LEMMA EffectIs ==
  ASSUME NEW el \in Element \cup {None}
  PROVE  /\ <<"click", el>> \in Effect /\ <<"press", el>> \in Effect
         /\ \A c \in Chars : <<"type", el, c>> \in Effect
BY DEF Effect

LEMMA FoundIs ==
  ASSUME NEW b, NEW x \in Kept, x.type = "click", x.sel # None => Target(b, x.sel) # {}
  PROVE  Found(b, x) \in Points /\ (x.sel # None => Found(b, x) \in Target(b, x.sel))
<1>1. x.point \in Points \cup {None} /\ (x.sel = None => x.point # None)
  BY KeptIs
<1>2. CASE x.sel = None
  BY <1>1, <1>2 DEF Found
<1>3. CASE x.sel # None
  <2> DEFINE S == Target(b, x.sel)
  <2>1. S \subseteq Points /\ S \subseteq Nat /\ S # {}
    BY <1>3, CaptureAssumption DEF Target
  <2>2. Found(b, x) = CHOOSE p \in S : \A q \in S : p <= q
    BY <1>3 DEF Found
  <2> HIDE DEF S
  <2>3. \E p \in S : \A q \in S : p <= q
    BY <2>1, Least
  <2>4. Found(b, x) \in S
    BY <2>2, <2>3
  <2> QED
    BY <1>3, <2>1, <2>4 DEF S
<1> QED
  BY <1>2, <1>3

LEMMA HitIs ==
  ASSUME site \in Site, NEW b \in Browser, NEW el \in Element
  PROVE  Hit(b, el) \in Browser /\ Hit(b, el).page = b.page
<1>1. site.goes[el] \in Pages \cup {None}
  BY DEF Site
<1>2. Hit(b, el) = [page |-> b.page, focus |-> el,
                    to |-> IF site.goes[el] = None THEN b.to ELSE site.goes[el]]
  <2> DEFINE c == [b EXCEPT !.focus = el]
             to == IF site.goes[el] = None THEN b.to ELSE site.goes[el]
  <2>1. c = [page |-> b.page, focus |-> el, to |-> b.to]
    BY DEF Browser
  <2>2. Hit(b, el) = [c EXCEPT !.to = IF site.goes[el] = None THEN c.to ELSE site.goes[el]]
    BY DEF Hit
  <2> HIDE DEF c
  <2>3. c.to = b.to
    BY <2>1
  <2>4. \A t : [c EXCEPT !.to = t] = [page |-> b.page, focus |-> el, to |-> t]
    BY <2>1
  <2> QED
    BY <2>2, <2>3, <2>4
<1> QED
  BY <1>1, <1>2, BrowserIs

LEMMA ActedIs ==
  ASSUME site \in Site, NEW b \in Browser, NEW x \in Kept, b.page # None,
         x.type = "click" => Found(b, x) \in Points
  PROVE  /\ Acted(b, x) \in Browser /\ Acted(b, x).page = b.page
         /\ Effects(b, x) \in Seq(Effect)
<1>1. /\ b.page \in Pages /\ b.focus \in Element \cup {None}
      /\ x.type \in {"navigate", "click", "type", "press"} /\ x.text \in Seq(Chars)
  BY BrowserIs, KeptIs
<1>2. CASE x.type = "click"
  <2> DEFINE el == <<b.page, Found(b, x)>>
  <2>1. el \in Element
    BY <1>1, <1>2 DEF Element
  <2>2. Acted(b, x) = Hit(b, el) /\ Effects(b, x) = << <<"click", el>> >>
    BY <1>2 DEF Acted, Effects
  <2> HIDE DEF el
  <2>3. <<"click", el>> \in Effect
    BY <2>1, EffectIs
  <2> QED
    BY <2>1, <2>2, <2>3, HitIs
<1>3. CASE x.type = "press"
  <2>1. Effects(b, x) = << <<"press", b.focus>> >>
    BY <1>3 DEF Effects
  <2>2. <<"press", b.focus>> \in Effect
    BY <1>1, EffectIs
  <2>3. Acted(b, x) = IF b.focus # None THEN Hit(b, b.focus) ELSE b
    BY <1>3 DEF Acted
  <2> QED
    BY <1>1, <2>1, <2>2, <2>3, HitIs
<1>4. CASE x.type = "type"
  <2>1. Acted(b, x) = b /\ Effects(b, x) = [i \in 1..Len(x.text) |-> <<"type", b.focus, x.text[i]>>]
    BY <1>4 DEF Acted, Effects
  <2>2. \A i \in 1..Len(x.text) : <<"type", b.focus, x.text[i]>> \in Effect
    BY <1>1, EffectIs, ElementOfSeq
  <2>3. Len(x.text) \in Nat
    BY <1>1
  <2> QED
    BY <2>1, <2>2, <2>3
<1>5. CASE x.type = "navigate"
  BY <1>5, EmptySeq DEF Acted, Effects
<1> QED
  BY <1>1, <1>2, <1>3, <1>4, <1>5

LEMMA SettleIs ==
  ASSUME NEW b \in Browser
  PROVE  Settle(b) \in Rested /\ (b.to = None => Settle(b) = b)
<1>1. Loaded(b, b.to) = [page |-> b.to, focus |-> None, to |-> None]
  BY DEF Loaded
<1> QED
  BY <1>1, BrowserIs DEF Settle, Rested

LEMMA StateIs ==
  /\ \A st \in State : /\ st.browser \in Rested /\ st.browser \in Browser /\ st.browser.to = None
                       /\ st.effects \in Seq(Effect)
                       /\ st = [browser |-> st.browser, effects |-> st.effects]
  /\ \A b \in Rested, e \in Seq(Effect) : [browser |-> b, effects |-> e] \in State
BY DEF State, Rested

LEMMA BlankIs == Blank \in State /\ Blank.effects = <<>> /\ Blank.browser.page = None
<1>1. NewRunner.browser = [page |-> None, focus |-> None, to |-> None]
  BY DEF NewRunner
<1>2. NewRunner.browser \in Rested
  BY <1>1, BrowserIs DEF Rested
<1> QED
  <2>1. NewRunner.browser.page = None /\ <<>> \in Seq(Effect)
    BY <1>1, EmptySeq
  <2>2. Blank.browser = NewRunner.browser /\ Blank.effects = <<>>
    BY DEF Blank
  <2>3. Blank \in State
    BY <1>2, <2>1, StateIs DEF Blank
  <2> QED
    BY <2>1, <2>2, <2>3

LEMMA DoesIs ==
  ASSUME site \in Site, NEW st \in State, NEW x \in Kept, Can(st, x)
  PROVE  /\ Does(st, x) \in State /\ Effects(st.browser, x) \in Seq(Effect)
         /\ Does(st, x).effects = st.effects \o Effects(st.browser, x)
<1>1. /\ st.browser \in Browser /\ st.effects \in Seq(Effect)
      /\ x.page \in Pages \cup {None}
  BY StateIs, KeptIs
<1>2. CASE x.type = "navigate"
  <2>1. Effects(st.browser, x) = <<>>
    BY <1>2 DEF Effects
  <2>2. Loaded(st.browser, x.page) \in Rested
    BY <1>1, BrowserIs DEF Loaded, Rested
  <2>3. Does(st, x) = [browser |-> Loaded(st.browser, x.page), effects |-> st.effects \o <<>>]
    BY <1>2, <2>1 DEF Does
  <2>4. <<>> \in Seq(Effect) /\ st.effects \o <<>> \in Seq(Effect)
    BY <1>1, EmptySeq, ConcatProperties
  <2> QED
    BY <2>1, <2>2, <2>3, <2>4, StateIs
<1>3. CASE x.type # "navigate"
  <2>1. st.browser.page # None /\ (x.sel # None => Target(st.browser, x.sel) # {})
    BY <1>3 DEF Can
  <2>2. Acted(st.browser, x) \in Browser /\ Effects(st.browser, x) \in Seq(Effect)
    BY <1>1, <2>1, ActedIs, FoundIs
  <2>3. Settle(Acted(st.browser, x)) \in Rested
    BY <2>2, SettleIs
  <2>4. Does(st, x) = [browser |-> Settle(Acted(st.browser, x)),
                       effects |-> st.effects \o Effects(st.browser, x)]
    BY <1>3 DEF Does
  <2>5. st.effects \o Effects(st.browser, x) \in Seq(Effect)
    BY <1>1, <2>2, ConcatProperties
  <2> QED
    BY <2>2, <2>3, <2>4, <2>5, StateIs
<1> QED
  BY <1>2, <1>3

First(S) == CHOOSE p \in S : \A q \in S : p <= q

\* The web does not change.
LEMMA SameWeb ==
  ASSUME site' = site
  PROVE  /\ \A st, x : (Can(st, x))' <=> Can(st, x)
         /\ \A st, x : (Does(st, x))' = Does(st, x)
<1>1. \A b, sel : (Target(b, sel))' = Target(b, sel)
  BY DEF Target
<1>2. \A b, x : (Found(b, x))' = Found(b, x)
  <2> SUFFICES ASSUME NEW b, NEW x PROVE (Found(b, x))' = Found(b, x)
    OBVIOUS
  <2>1. (Target(b, x.sel))' = Target(b, x.sel)
    BY <1>1
  <2>2. Found(b, x) = IF x.sel = None THEN x.point ELSE First(Target(b, x.sel))
    BY DEF Found, First
  <2>3. (Found(b, x))' = IF x.sel = None THEN x.point ELSE First((Target(b, x.sel))')
    BY Zenon DEF Found, First
  <2> QED
    BY <2>1, <2>2, <2>3
<1>3. \A b, el : (Hit(b, el))' = Hit(b, el)
  BY DEF Hit
<1>4. \A b, x : (Acted(b, x))' = Acted(b, x)
  BY <1>2, <1>3 DEF Acted
<1>5. \A b, x : (Effects(b, x))' = Effects(b, x)
  BY <1>2 DEF Effects
<1> QED
  BY <1>1, <1>4, <1>5 DEF Can, Does, Loaded, Settle

(***************************************************************************)
(* What a sequence of steps yields                                         *)
(***************************************************************************)

\* f is how the steps of s go, and x where they end.
Plays(f, s) ==
  /\ f \in [0..Len(s) -> State] /\ f[0] = Blank
  /\ \A i \in 1..Len(s) : Can(f[i - 1], s[i]) /\ f[i] = Does(f[i - 1], s[i])
Yields(s, x) == \E f : Plays(f, s) /\ f[Len(s)] = x

LEMMA SamePlays ==
  ASSUME site' = site
  PROVE  /\ \A f, s : (Plays(f, s))' <=> Plays(f, s)
         /\ \A s, x : (Yields(s, x))' <=> Yields(s, x)
<1>1. \A f, s : (Plays(f, s))' <=> Plays(f, s)
  BY SameWeb DEF Plays
<1> QED
  BY <1>1 DEF Yields

LEMMA YieldsState ==
  ASSUME NEW s \in Seq(Kept), NEW x, Yields(s, x)
  PROVE  x \in State
<1>1. PICK f : Plays(f, s) /\ f[Len(s)] = x
  BY DEF Yields
<1>2. Len(s) \in 0..Len(s)
  OBVIOUS
<1> QED
  BY <1>1, <1>2 DEF Plays

LEMMA YieldsNone == Yields(<<>>, Blank)
<1> DEFINE f == [i \in 0..0 |-> Blank]
<1>1. f \in [0..0 -> State] /\ f[0] = Blank /\ \A i \in 1..0 : FALSE
  BY BlankIs
<1> HIDE DEF f
<1>2. Len(<<>>) = 0
  OBVIOUS
<1>3. Plays(f, <<>>) /\ f[Len(<<>>)] = Blank
  BY <1>1, <1>2 DEF Plays
<1> QED
  BY <1>3 DEF Yields

LEMMA YieldsMore ==
  ASSUME site \in Site, NEW s \in Seq(Kept), NEW x, Yields(s, x), NEW y \in Kept, Can(x, y)
  PROVE  Yields(Append(s, y), Does(x, y))
<1> DEFINE n == Len(s)
           t == Append(s, y)
           e == Does(x, y)
<1>1. PICK f : Plays(f, s) /\ f[n] = x
  BY DEF Yields
<1> DEFINE g == [i \in 0..(n + 1) |-> IF i = n + 1 THEN e ELSE f[i]]
<1>2. n \in Nat /\ Len(t) = n + 1 /\ t[n + 1] = y /\ \A i \in 1..n : t[i] = s[i]
  BY AppendProperties
<1>3. /\ f \in [0..n -> State] /\ f[0] = Blank
      /\ \A i \in 1..n : Can(f[i - 1], s[i]) /\ f[i] = Does(f[i - 1], s[i])
  BY <1>1 DEF Plays
<1>4. e \in State
  BY YieldsState, DoesIs
<1> HIDE DEF n, t, e
<1>5. \A i \in 0..(n + 1) : i # n + 1 => i \in 0..n
  BY <1>2
<1>6. g \in [0..(n + 1) -> State]
  BY <1>3, <1>4, <1>5
<1>7. n + 1 \in 0..(n + 1) /\ \A i \in 0..n : i \in 0..(n + 1) /\ i # n + 1
  BY <1>2
<1>8. g[n + 1] = e /\ \A i \in 0..n : g[i] = f[i]
  BY <1>7
<1> HIDE DEF g
<1>9. \A i \in 1..(n + 1) : /\ i - 1 \in 0..n
                            /\ i = n + 1 => i - 1 = n
                            /\ i # n + 1 => i \in 1..n /\ i \in 0..n
  BY <1>2
<1>10. \A i \in 1..(n + 1) : Can(g[i - 1], t[i]) /\ g[i] = Does(g[i - 1], t[i])
  <2> SUFFICES ASSUME NEW i \in 1..(n + 1)
               PROVE  Can(g[i - 1], t[i]) /\ g[i] = Does(g[i - 1], t[i])
    OBVIOUS
  <2>1. CASE i = n + 1
    <3>1. g[i - 1] = x /\ t[i] = y /\ g[i] = e
      BY <1>1, <1>2, <1>8, <1>9, <2>1 DEF n
    <3> QED
      BY <3>1 DEF e
  <2>2. CASE i # n + 1
    <3>1. g[i - 1] = f[i - 1] /\ t[i] = s[i] /\ g[i] = f[i] /\ i \in 1..n
      BY <1>2, <1>8, <1>9, <2>2
    <3> QED
      BY <1>3, <3>1
  <2> QED
    BY <2>1, <2>2
<1>11. 0 \in 0..n
  BY <1>2
<1>12. Plays(g, t) /\ g[Len(t)] = e
  BY <1>2, <1>3, <1>6, <1>8, <1>10, <1>11 DEF Plays
<1> QED
  BY <1>12 DEF Yields, t, e

\* The first n steps of it.
LEMMA PlaysFirst ==
  ASSUME NEW s, Len(s) \in Nat, NEW f, Plays(f, s), NEW t, Len(t) \in 0..Len(s),
         \A i \in 1..Len(t) : t[i] = s[i]
  PROVE  Yields(t, f[Len(t)])
<1> DEFINE n == Len(s)
           m == Len(t)
           g == [i \in 0..m |-> f[i]]
<1>1. /\ f \in [0..n -> State] /\ f[0] = Blank
      /\ \A i \in 1..n : Can(f[i - 1], s[i]) /\ f[i] = Does(f[i - 1], s[i])
  BY DEF Plays
<1>2. n \in Nat /\ m \in 0..n
  OBVIOUS
<1> HIDE DEF n, m
<1>3. \A i \in 0..m : i \in 0..n
  BY <1>2
<1>4. g \in [0..m -> State] /\ \A i \in 0..m : g[i] = f[i]
  BY <1>1, <1>3
<1> HIDE DEF g
<1>5. \A i \in 1..m : i \in 1..n /\ i \in 0..m /\ i - 1 \in 0..m
  BY <1>2
<1>6. 0 \in 0..m /\ m \in 0..m
  BY <1>2
<1>7. \A i \in 1..m : t[i] = s[i]
  BY DEF m
<1>8. \A i \in 1..m : Can(g[i - 1], t[i]) /\ g[i] = Does(g[i - 1], t[i])
  BY <1>1, <1>4, <1>5, <1>7
<1>9. Plays(g, t) /\ g[m] = f[m]
  BY <1>1, <1>4, <1>6, <1>8 DEF Plays, m
<1> QED
  BY <1>9 DEF Yields, m

LEMMA YieldsLess ==
  ASSUME NEW s \in Seq(Kept), NEW y \in Kept, NEW z, Yields(Append(s, y), z)
  PROVE  \E x \in State : Yields(s, x) /\ Can(x, y) /\ z = Does(x, y)
<1> DEFINE n == Len(s)
           t == Append(s, y)
<1>1. PICK f : Plays(f, t) /\ f[Len(t)] = z
  BY DEF Yields
<1>2. n \in Nat /\ Len(t) = n + 1 /\ t[n + 1] = y /\ \A i \in 1..n : t[i] = s[i]
  BY AppendProperties
<1> HIDE DEF t
<1>3. Yields(s, f[n])
  BY <1>1, <1>2, PlaysFirst
<1>4. n + 1 \in 1..Len(t) /\ (n + 1) - 1 = n
  BY <1>2
<1>5. Can(f[n], y) /\ f[n + 1] = Does(f[n], y)
  BY <1>1, <1>2, <1>4 DEF Plays
<1> QED
  BY <1>1, <1>2, <1>3, <1>5, YieldsState

\* e is what d has become.
Grows(d, e) == d \in Seq(Effect) /\ \E u \in Seq(Effect) : e = d \o u

LEMMA GrowsOn ==
  ASSUME NEW d, NEW e, Grows(d, e), NEW u \in Seq(Effect)
  PROVE  Grows(d, e \o u) /\ e \in Seq(Effect)
<1>1. PICK v \in Seq(Effect) : e = d \o v
  BY DEF Grows
<1>2. d \in Seq(Effect)
  BY DEF Grows
<1>3. (d \o v) \o u = d \o (v \o u)
  BY <1>2, ConcatAssociative
<1>4. v \o u \in Seq(Effect)
  BY ConcatProperties
<1>5. e \in Seq(Effect)
  BY <1>1, <1>2, ConcatProperties
<1> QED
  BY <1>1, <1>2, <1>3, <1>4, <1>5 DEF Grows

LEMMA GrowsNot ==
  ASSUME NEW d \in Seq(Effect)
  PROVE  Grows(d, d)
<1>1. d \o <<>> = d /\ <<>> \in Seq(Effect)
  BY EmptySeq, ConcatEmptySeq
<1> QED
  BY <1>1 DEF Grows

LEMMA GrowsPrefix ==
  ASSUME NEW d, NEW e, Grows(d, e)
  PROVE  IsPrefix(d, e)
<1>1. PICK u \in Seq(Effect) : e = d \o u
  BY DEF Grows
<1>2. d \in Seq(Effect)
  BY DEF Grows
<1> DEFINE n == Len(d)
<1>3. /\ e \in Seq(Effect) /\ Len(e) = n + Len(u) /\ n \in Nat /\ Len(u) \in Nat
      /\ \A i \in 1..(n + Len(u)) : e[i] = IF i <= n THEN d[i] ELSE u[i - n]
  BY <1>1, <1>2, ConcatProperties
<1> HIDE DEF n
<1>4. n <= Len(e) /\ \A i \in 1..n : e[i] = d[i] /\ d[i] \in Effect /\ e[i] \in Effect
  <2>1. n <= Len(e) /\ \A i \in 1..n : e[i] = d[i]
    BY <1>3
  <2>2. \A i \in 1..n : d[i] \in Effect
    BY <1>2, ElementOfSeq DEF n
  <2> QED
    BY <2>1, <2>2
<1>5. \A i \in 1..n : 1 + i - 1 = i
  BY <1>3
<1>6. n - 1 + 1 = n /\ n \in Int /\ 1 \in Int /\ (~(1 <= n) => n = 0)
  BY <1>3
<1>7. /\ SubSeq(d, 1, n) \in Seq(Effect) /\ Len(SubSeq(d, 1, n)) = n
      /\ \A i \in 1..n : SubSeq(d, 1, n)[i] = d[i]
  <2>1. /\ SubSeq(d, 1, n) \in Seq(Effect)
        /\ Len(SubSeq(d, 1, n)) = IF 1 <= n THEN n - 1 + 1 ELSE 0
        /\ \A i \in 1..(n - 1 + 1) : SubSeq(d, 1, n)[i] = d[1 + i - 1]
    BY <1>4, <1>6, SubSeqProperties
  <2> QED
    BY <1>5, <1>6, <2>1
<1>8. /\ SubSeq(e, 1, n) \in Seq(Effect) /\ Len(SubSeq(e, 1, n)) = n
      /\ \A i \in 1..n : SubSeq(e, 1, n)[i] = e[i]
  <2>1. /\ SubSeq(e, 1, n) \in Seq(Effect)
        /\ Len(SubSeq(e, 1, n)) = IF 1 <= n THEN n - 1 + 1 ELSE 0
        /\ \A i \in 1..(n - 1 + 1) : SubSeq(e, 1, n)[i] = e[1 + i - 1]
    BY <1>4, <1>6, SubSeqProperties
  <2> QED
    BY <1>5, <1>6, <2>1
<1>9. SubSeq(d, 1, n) = SubSeq(e, 1, n)
  <2>1. \A i \in 1..n : SubSeq(d, 1, n)[i] = SubSeq(e, 1, n)[i]
    BY <1>4, <1>7, <1>8
  <2> QED
    BY <1>7, <1>8, <2>1, SeqEqual
<1> QED
  BY <1>4, <1>9 DEF IsPrefix, n

\* What has happened has happened.
LEMMA PlaysGrow ==
  ASSUME site \in Site, NEW s \in Seq(Kept), NEW f, Plays(f, s), NEW m \in 0..Len(s)
  PROVE  Grows(f[m].effects, f[Len(s)].effects)
<1> DEFINE n == Len(s)
           S == {k \in Nat : m + k <= n => Grows(f[m].effects, f[m + k].effects)}
<1>1. /\ f \in [0..n -> State] /\ n \in Nat
      /\ \A i \in 1..n : s[i] \in Kept /\ Can(f[i - 1], s[i]) /\ f[i] = Does(f[i - 1], s[i])
  BY ElementOfSeq DEF Plays
<1>2. m \in 0..n /\ m \in Nat /\ m + 0 = m
  OBVIOUS
<1>3. 0 \in S
  BY <1>1, <1>2, StateIs, GrowsNot
<1>4. ASSUME NEW k \in Nat, k \in S PROVE k + 1 \in S
  <2> SUFFICES ASSUME m + (k + 1) <= n PROVE Grows(f[m].effects, f[m + (k + 1)].effects)
    OBVIOUS
  <2> HIDE DEF n
  <2>1. /\ m + k <= n /\ m + k \in 0..n /\ m + (k + 1) \in 1..n
        /\ (m + (k + 1)) - 1 = m + k
    BY <1>1, <1>2
  <2>2. Grows(f[m].effects, f[m + k].effects)
    BY <1>4, <2>1
  <2>3. f[m + (k + 1)] = Does(f[m + k], s[m + (k + 1)]) /\ Can(f[m + k], s[m + (k + 1)])
    BY <1>1, <2>1
  <2>4. f[m + k] \in State /\ s[m + (k + 1)] \in Kept
    BY <1>1, <2>1
  <2> DEFINE q == f[m + k]
             y == s[m + (k + 1)]
             u == Effects(q.browser, y)
  <2> HIDE DEF q, y
  <2>5. Does(q, y).effects = q.effects \o u /\ u \in Seq(Effect)
    BY <2>3, <2>4, DoesIs DEF q, y
  <2> HIDE DEF u
  <2>6. Grows(f[m].effects, q.effects \o u)
    BY <2>2, <2>5, GrowsOn DEF q
  <2> QED
    BY <2>3, <2>5, <2>6 DEF q, y
<1> HIDE DEF S
<1>5. Nat \subseteq S
  BY <1>3, <1>4, Induct
<1>6. n - m \in Nat /\ m + (n - m) = n
  BY <1>1, <1>2
<1> QED
  BY <1>5, <1>6 DEF S

\* The first part of a recording does the first part of it.
LEMMA YieldsPart ==
  ASSUME site \in Site, NEW s \in Seq(Kept), NEW u \in Seq(Kept), NEW z, Yields(s \o u, z)
  PROVE  \E x \in State : Yields(s, x) /\ Grows(x.effects, z.effects)
<1> DEFINE t == s \o u
           n == Len(s)
<1>1. /\ t \in Seq(Kept) /\ Len(t) = n + Len(u) /\ n \in Nat /\ Len(u) \in Nat
      /\ \A i \in 1..(n + Len(u)) : t[i] = IF i <= n THEN s[i] ELSE u[i - n]
  BY ConcatProperties
<1>2. PICK f : Plays(f, t) /\ f[Len(t)] = z
  BY DEF Yields
<1> HIDE DEF t, n
<1>3. n \in 0..Len(t) /\ \A i \in 1..n : t[i] = s[i]
  BY <1>1
<1>4. Yields(s, f[n])
  BY <1>1, <1>2, <1>3, PlaysFirst DEF n
<1>5. Grows(f[n].effects, z.effects)
  BY <1>1, <1>2, <1>3, PlaysGrow
<1> QED
  BY <1>4, <1>5, YieldsState

Typed(focus, text) == [i \in 1..Len(text) |-> <<"type", focus, text[i]>>]

LEMMA TypedIs ==
  ASSUME NEW focus \in Element \cup {None}, NEW text \in Seq(Chars)
  PROVE  /\ Typed(focus, text) \in Seq(Effect) /\ Len(Typed(focus, text)) = Len(text)
         /\ Len(text) \in Nat
         /\ \A i \in 1..Len(text) : Typed(focus, text)[i] = <<"type", focus, text[i]>>
<1>1. \A i \in 1..Len(text) : <<"type", focus, text[i]>> \in Effect
  BY EffectIs, ElementOfSeq
<1>2. Len(text) \in Nat
  OBVIOUS
<1> QED
  BY <1>1, <1>2 DEF Typed

\* Two texts, one after the other.
LEMMA TypedBoth ==
  ASSUME NEW focus \in Element \cup {None}, NEW a \in Seq(Chars), NEW b \in Seq(Chars)
  PROVE  Typed(focus, a \o b) = Typed(focus, a) \o Typed(focus, b)
<1> DEFINE m == Len(a)
           n == Len(b)
           l == Typed(focus, a \o b)
           r == Typed(focus, a) \o Typed(focus, b)
<1>1. /\ a \o b \in Seq(Chars) /\ Len(a \o b) = m + n
      /\ \A i \in 1..(m + n) : (a \o b)[i] = IF i <= m THEN a[i] ELSE b[i - m]
  BY ConcatProperties
<1>2. /\ l \in Seq(Effect) /\ Len(l) = m + n
      /\ \A i \in 1..(m + n) : l[i] = <<"type", focus, (a \o b)[i]>>
  BY <1>1, TypedIs
<1>3. /\ Typed(focus, a) \in Seq(Effect) /\ Len(Typed(focus, a)) = m /\ m \in Nat
      /\ \A i \in 1..m : Typed(focus, a)[i] = <<"type", focus, a[i]>>
  BY TypedIs
<1>4. /\ Typed(focus, b) \in Seq(Effect) /\ Len(Typed(focus, b)) = n /\ n \in Nat
      /\ \A i \in 1..n : Typed(focus, b)[i] = <<"type", focus, b[i]>>
  BY TypedIs
<1>5. /\ r \in Seq(Effect) /\ Len(r) = m + n
      /\ \A i \in 1..(m + n) : r[i] = IF i <= m THEN Typed(focus, a)[i] ELSE Typed(focus, b)[i - m]
  <2> HIDE DEF m, n
  <2> QED
    BY <1>3, <1>4, ConcatProperties
<1> HIDE DEF m, n, l, r
<1>6. \A i \in 1..(m + n) : l[i] = r[i]
  <2> SUFFICES ASSUME NEW i \in 1..(m + n) PROVE l[i] = r[i]
    OBVIOUS
  <2>1. CASE i <= m
    <3>1. i \in 1..m
      BY <1>3, <1>4, <2>1
    <3> QED
      BY <1>1, <1>2, <1>3, <1>5, <2>1, <3>1
  <2>2. CASE ~(i <= m)
    <3>1. i - m \in 1..n
      BY <1>3, <1>4, <2>2
    <3> QED
      BY <1>1, <1>2, <1>4, <1>5, <2>2, <3>1
  <2> QED
    BY <2>1, <2>2
<1> QED
  BY <1>2, <1>5, <1>6, SeqEqual DEF l, r

LEMMA DoesType ==
  ASSUME NEW st \in State, NEW x, x.type = "type"
  PROVE  Does(st, x) = [browser |-> st.browser,
                        effects |-> st.effects \o Typed(st.browser.focus, x.text)]
<1>1. Acted(st.browser, x) = st.browser
  BY DEF Acted
<1>2. Settle(st.browser) = st.browser
  BY StateIs, SettleIs
<1>3. Effects(st.browser, x) = Typed(st.browser.focus, x.text)
  BY DEF Effects, Typed
<1> QED
  BY <1>1, <1>2, <1>3 DEF Does

LEMMA DoesNavigate ==
  ASSUME NEW st \in State, NEW x, x.type = "navigate"
  PROVE  Does(st, x) = [browser |-> [page |-> x.page, focus |-> None, to |-> None],
                        effects |-> st.effects]
<1>1. Effects(st.browser, x) = <<>>
  BY DEF Effects
<1>2. st.effects \o <<>> = st.effects
  BY StateIs, ConcatEmptySeq
<1> QED
  BY <1>1, <1>2 DEF Does, Loaded

\* What collapseSteps() makes of a step does what the step does.
LEMMA YieldsMerge ==
  ASSUME site \in Site, NEW c \in Seq(Kept), NEW st, Yields(c, st), NEW x \in Kept, Can(st, x)
  PROVE  Yields(Merge(c, x), Does(st, x))
<1>1. CASE c # <<>> /\ x.type = "type" /\ Last(c).type = "type"
  <2> DEFINE d == Front(c)
             l == Last(c)
             y == [Last(c) EXCEPT !.text = @ \o x.text]
  <2>1. d \in Seq(Kept) /\ l \in Kept /\ c = Append(d, l)
    BY <1>1, FrontLast
  <2>2. l.text \in Seq(Chars) /\ x.text \in Seq(Chars) /\ l.text \o x.text \in Seq(Chars)
    BY <2>1, KeptIs, ConcatProperties
  <2>3. y \in Kept /\ y.type = "type" /\ y.sel = l.sel /\ y.text = l.text \o x.text
    BY <1>1, <2>1, <2>2, ReText
  <2>4. Merge(c, x) = Append(d, y)
    BY <1>1 DEF Merge
  <2>9. l.type = "type"
    BY <1>1
  <2> HIDE DEF y, l, d
  <2>5. PICK s0 \in State : Yields(d, s0) /\ Can(s0, l) /\ st = Does(s0, l)
    BY <2>1, YieldsLess
  <2>6. Can(s0, y)
    BY <2>3, <2>5, <2>9 DEF Can
  <2>7. Does(s0, y) = Does(st, x)
    <3> DEFINE b == s0.browser
               e == s0.effects
    <3>1. st \in State /\ st = [browser |-> b, effects |-> e \o Typed(b.focus, l.text)]
      BY <2>5, <2>9, DoesType, YieldsState
    <3>2. Does(st, x) = [browser |-> b,
                         effects |-> (e \o Typed(b.focus, l.text)) \o Typed(b.focus, x.text)]
      BY <1>1, <3>1, DoesType
    <3>3. Does(s0, y) = [browser |-> b, effects |-> e \o Typed(b.focus, l.text \o x.text)]
      BY <2>3, DoesType
    <3>4. b.focus \in Element \cup {None} /\ e \in Seq(Effect)
      BY StateIs, BrowserIs
    <3> HIDE DEF b, e
    <3>5. /\ Typed(b.focus, l.text) \in Seq(Effect) /\ Typed(b.focus, x.text) \in Seq(Effect)
          /\ Typed(b.focus, l.text \o x.text) = Typed(b.focus, l.text) \o Typed(b.focus, x.text)
      BY <2>2, <3>4, TypedIs, TypedBoth
    <3>6. (e \o Typed(b.focus, l.text)) \o Typed(b.focus, x.text)
          = e \o (Typed(b.focus, l.text) \o Typed(b.focus, x.text))
      BY <3>4, <3>5, ConcatAssociative
    <3> QED
      BY <3>2, <3>3, <3>5, <3>6
  <2>8. Yields(Append(d, y), Does(s0, y))
    BY <2>1, <2>3, <2>5, <2>6, YieldsMore
  <2> QED
    BY <2>4, <2>7, <2>8
<1>2. CASE c # <<>> /\ x.type = "navigate" /\ Last(c).type = "navigate" /\ Last(c).page = x.page
  <2> DEFINE d == Front(c)
             l == Last(c)
  <2>1. d \in Seq(Kept) /\ l \in Kept /\ c = Append(d, l)
    BY <1>2, FrontLast
  <2>2. Merge(c, x) = c
    BY <1>2 DEF Merge
  <2>3. l.type = "navigate" /\ l.page = x.page
    BY <1>2
  <2> HIDE DEF l, d
  <2>4. PICK s0 \in State : st = Does(s0, l)
    BY <2>1, YieldsLess
  <2>5. st \in State /\ st = [browser |-> [page |-> l.page, focus |-> None, to |-> None],
                              effects |-> s0.effects]
    BY <2>3, <2>4, DoesNavigate, YieldsState
  <2>6. Does(st, x) = [browser |-> [page |-> x.page, focus |-> None, to |-> None],
                       effects |-> st.effects]
    BY <1>2, <2>5, DoesNavigate
  <2>7. Does(st, x) = st
    BY <2>3, <2>5, <2>6
  <2> QED
    BY <2>2, <2>7
<1>3. CASE ~(c # <<>> /\ x.type = "type" /\ Last(c).type = "type")
           /\ ~(c # <<>> /\ x.type = "navigate" /\ Last(c).type = "navigate" /\ Last(c).page = x.page)
  <2>1. Merge(c, x) = Append(c, x)
    BY <1>3 DEF Merge
  <2> QED
    BY <2>1, YieldsMore
<1> QED
  BY <1>1, <1>2, <1>3

LEMMA YieldsCollapsed ==
  ASSUME site \in Site, NEW s \in Seq(Kept), NEW x, Yields(s, x)
  PROVE  Yields(Collapsed(s), x) /\ Collapsed(s) \in Seq(Kept)
<1> DEFINE n == Len(s)
<1>1. PICK f : Plays(f, s) /\ f[n] = x
  BY DEF Yields
<1>2. PICK u : Makes(s, n, u) /\ Collapsed(s) = u[n]
  BY CollapsedMakes
<1>3. /\ f \in [0..n -> State] /\ f[0] = Blank
      /\ \A i \in 1..n : Can(f[i - 1], s[i]) /\ f[i] = Does(f[i - 1], s[i])
  BY <1>1 DEF Plays
<1>4. /\ u \in [0..n -> Seq(Kept)] /\ u[0] = <<>>
      /\ \A i \in 1..n : u[i] = Merge(u[i - 1], s[i])
  BY <1>2 DEF Makes
<1>5. n \in Nat /\ \A i \in 1..n : s[i] \in Kept
  BY ElementOfSeq
<1> DEFINE S == {i \in Nat : i <= n => Yields(u[i], f[i])}
<1> HIDE DEF n
<1>6. 0 \in S
  BY <1>3, <1>4, YieldsNone
<1>7. ASSUME NEW i \in Nat, i \in S PROVE i + 1 \in S
  <2> SUFFICES ASSUME i + 1 <= n PROVE Yields(u[i + 1], f[i + 1])
    OBVIOUS
  <2>1. i \in 0..n /\ i + 1 \in 1..n /\ (i + 1) - 1 = i /\ i <= n
    BY <1>5
  <2>2. /\ Yields(u[i], f[i]) /\ u[i] \in Seq(Kept) /\ s[i + 1] \in Kept /\ Can(f[i], s[i + 1])
        /\ u[i + 1] = Merge(u[i], s[i + 1]) /\ f[i + 1] = Does(f[i], s[i + 1])
    BY <1>3, <1>4, <1>5, <1>7, <2>1
  <2>3. Yields(Merge(u[i], s[i + 1]), Does(f[i], s[i + 1]))
    BY <2>2, YieldsMerge
  <2> QED
    BY <2>2, <2>3
<1> HIDE DEF S
<1>8. Nat \subseteq S
  BY <1>6, <1>7, Induct
<1>9. Yields(u[n], f[n]) /\ u[n] \in Seq(Kept)
  BY <1>4, <1>5, <1>8 DEF S
<1> QED
  BY <1>1, <1>2, <1>9

LEMMA NewStepIs ==
  /\ NewStep \in Kept /\ NewStep.type = "press" /\ NewStep.point = None /\ NewStep.sel = None
  /\ NewStep.text = <<>> /\ NewStep.page = None /\ NewStep.rel = FALSE
  /\ \A p \in Pages : /\ Goto(p) \in Kept /\ Goto(p).type = "navigate" /\ Goto(p).page = p
                      /\ Goto(p).sel = None /\ Goto(p).point = None
<1>1. NewStep = [type |-> "press", point |-> None, sel |-> None, text |-> <<>>, page |-> None,
                 rel |-> FALSE]
  BY DEF NewStep
<1>2. <<>> \in Seq(Chars)
  BY EmptySeq
<1>3. NewStep \in Step
  BY <1>1, <1>2 DEF Step
<1>4. ASSUME NEW p \in Pages
      PROVE  /\ Goto(p) \in Step /\ Goto(p).type = "navigate" /\ Goto(p).page = p
             /\ Goto(p).sel = None /\ Goto(p).point = None
  <2> DEFINE c == [NewStep EXCEPT !.type = "navigate"]
  <2>1. NewStep.sel = None /\ NewStep.point = None
    BY <1>1
  <2>2. c \in Step /\ c.type = "navigate" /\ c.sel = None /\ c.point = None
    BY <1>3, <2>1 DEF Step
  <2>3. Goto(p) = [c EXCEPT !.page = p]
    BY DEF Goto
  <2> HIDE DEF c
  <2> QED
    BY <2>2, <2>3 DEF Step
<1> QED
  BY <1>1, <1>3, <1>4 DEF Kept

\* A recording that begins with a navigation needs no other.
LEMMA YieldsEntered ==
  ASSUME site \in Site, session.target \in Pages, NEW s \in Seq(Kept),
         NEW x, Yields(<<Goto(session.target)>> \o s, x)
  PROVE  Yields(Entered(s), x) /\ Entered(s) \in Seq(Kept) /\ Entered(s) # <<>>
<1> DEFINE g == Goto(session.target)
           t == <<g>> \o s
           n == Len(s)
<1>1. g \in Kept /\ g.type = "navigate" /\ g.page = session.target
  BY NewStepIs
<1>2. /\ t \in Seq(Kept) /\ Len(t) = 1 + n /\ n \in Nat /\ t[1] = g /\ t # <<>>
      /\ \A i \in 1..n : t[i + 1] = s[i] /\ s[i] \in Kept
  <2> HIDE DEF g
  <2>0. \A i \in 1..n : s[i] \in Kept
    BY ElementOfSeq
  <2>1. <<g>> \in Seq(Kept) /\ Len(<<g>>) = 1 /\ <<g>>[1] = g
    BY <1>1
  <2>2. /\ t \in Seq(Kept) /\ Len(t) = 1 + n /\ n \in Nat
        /\ \A i \in 1..(1 + n) : t[i] = IF i <= 1 THEN <<g>>[i] ELSE s[i - 1]
    BY <2>1, ConcatProperties
  <2> HIDE DEF t, n
  <2>3. \A i \in 1..n : i + 1 \in 1..(1 + n) /\ ~(i + 1 <= 1) /\ (i + 1) - 1 = i
    BY <2>2
  <2>4. 1 \in 1..(1 + n)
    BY <2>2
  <2>5. t # <<>>
    BY <2>2
  <2> QED
    BY <2>0, <2>1, <2>2, <2>3, <2>4, <2>5
<1>3. CASE ~(s # <<>> /\ Head(s).type = "navigate")
  <2>1. Entered(s) = t
    BY <1>3 DEF Entered
  <2> QED
    BY <1>2, <2>1
<1>4. CASE s # <<>> /\ Head(s).type = "navigate"
  <2>1. Entered(s) = s
    BY <1>4 DEF Entered
  <2>2. PICK f : Plays(f, t) /\ f[Len(t)] = x
    BY DEF Yields
  <2>9. n >= 1 /\ Head(s) = s[1]
    BY <1>4
  <2> HIDE DEF t, n, g
  <2>3. /\ f \in [0..(1 + n) -> State] /\ f[0] = Blank
        /\ \A i \in 1..(1 + n) : Can(f[i - 1], t[i]) /\ f[i] = Does(f[i - 1], t[i])
    BY <1>2, <2>2 DEF Plays
  <2>4. f[2] = Does(Blank, s[1]) /\ s[1].type = "navigate"
    <3>1. 1 \in 1..n /\ 1 \in 1..(1 + n) /\ 2 \in 1..(1 + n) /\ 1 - 1 = 0 /\ 2 - 1 = 1 /\ 1 + 1 = 2
      BY <1>2, <2>9
    <3>2. f[1] = Does(Blank, g) /\ f[2] = Does(f[1], s[1]) /\ s[1].type = "navigate" /\ f[1] \in State
      <4>1. t[2] = s[1]
        BY <1>2, <3>1
      <4>2. f[1] \in State
        <5>1. 1 \in 0..(1 + n)
          BY <1>2
        <5> QED
          BY <2>3, <5>1
      <4> QED
        BY <1>2, <1>4, <2>3, <2>9, <3>1, <4>1, <4>2
    <3>3. f[1].effects = Blank.effects
      BY <1>1, <3>2, DoesNavigate, BlankIs
    <3> QED
      BY <3>2, <3>3, DoesNavigate, BlankIs
  <2> DEFINE h == [i \in 0..n |-> IF i = 0 THEN Blank ELSE f[i + 1]]
  <2>5. \A i \in 0..n : i + 1 \in 0..(1 + n)
    BY <1>2
  <2>6. h \in [0..n -> State] /\ h[0] = Blank /\ \A i \in 1..n : h[i] = f[i + 1] /\ i \in 0..n
    BY <1>2, <2>3, <2>5, BlankIs
  <2> HIDE DEF h
  <2>7. \A i \in 1..n : Can(h[i - 1], s[i]) /\ h[i] = Does(h[i - 1], s[i])
    <3> SUFFICES ASSUME NEW i \in 1..n PROVE Can(h[i - 1], s[i]) /\ h[i] = Does(h[i - 1], s[i])
      OBVIOUS
    <3>1. CASE i = 1
      <4>1. h[1] = f[2] /\ h[i - 1] = Blank
        <5>1. 1 \in 1..n /\ 1 + 1 = 2 /\ i - 1 = 0
          BY <3>1
        <5> QED
          BY <2>6, <5>1
      <4> QED
        BY <2>4, <3>1, <4>1 DEF Can
    <3>2. CASE i # 1
      <4>1. i - 1 \in 1..n /\ i + 1 \in 1..(1 + n) /\ (i - 1) + 1 = i /\ (i + 1) - 1 = i
        BY <1>2, <3>2
      <4>2. h[i - 1] = f[i] /\ h[i] = f[i + 1] /\ t[i + 1] = s[i]
        BY <1>2, <2>6, <4>1
      <4>3. Can(f[i], t[i + 1]) /\ f[i + 1] = Does(f[i], t[i + 1])
        BY <2>3, <4>1
      <4> QED
        BY <4>2, <4>3
    <3> QED
      BY <3>1, <3>2
  <2>8. Plays(h, s) /\ h[n] = x
    <3>1. n \in 1..n /\ Len(t) = n + 1
      BY <1>2, <2>9
    <3> QED
      BY <2>2, <2>6, <2>7, <3>1 DEF Plays, n
  <2> QED
    BY <1>4, <2>1, <2>8 DEF Yields, n
<1> QED
  BY <1>3, <1>4

\* How a step of a test goes to a page: a path leads where the application is.
Marked(step) == step.type = "navigate" => (step.rel <=> site.origin[step.page] = Base)

LEMMA ToTestStepIs ==
  ASSUME NEW x \in Kept
  PROVE  LET y == ToTestStep(x) IN
           /\ y \in Kept /\ Marked(y)
           /\ y.type = x.type /\ y.point = x.point /\ y.sel = x.sel /\ y.text = x.text
           /\ y.page = x.page
<1> DEFINE rel == x.type = "navigate" /\ site.origin[x.page] = Base
           y == [x EXCEPT !.rel = rel]
<1>1. ToTestStep(x) = y
  BY DEF ToTestStep
<1>2. rel \in BOOLEAN
  OBVIOUS
<1>3. x.type = "navigate" => (rel <=> site.origin[x.page] = Base)
  OBVIOUS
<1> HIDE DEF rel
<1>4. /\ y \in Kept /\ y.rel = rel
      /\ y.type = x.type /\ y.point = x.point /\ y.sel = x.sel /\ y.text = x.text
      /\ y.page = x.page
  BY <1>2 DEF Kept, Step
<1> HIDE DEF y
<1>5. Marked(y)
  BY <1>3, <1>4 DEF Marked
<1> QED
  BY <1>1, <1>4, <1>5

\* What rel says makes no difference to a browser.
LEMMA DoesAlike ==
  ASSUME NEW x, NEW y, y.type = x.type, y.point = x.point, y.sel = x.sel, y.text = x.text,
         y.page = x.page
  PROVE  \A st : (Can(st, y) <=> Can(st, x)) /\ Does(st, y) = Does(st, x)
<1> SUFFICES ASSUME NEW st PROVE (Can(st, y) <=> Can(st, x)) /\ Does(st, y) = Does(st, x)
  OBVIOUS
<1>1. Can(st, y) <=> Can(st, x)
  BY DEF Can
<1>2. \A b : Found(b, y) = Found(b, x)
  <2>1. \A b : /\ Found(b, x) = IF x.sel = None THEN x.point ELSE First(Target(b, x.sel))
               /\ Found(b, y) = IF y.sel = None THEN y.point ELSE First(Target(b, y.sel))
    BY DEF Found, First
  <2> QED
    BY <2>1
<1>3. \A b : Acted(b, y) = Acted(b, x)
  BY <1>2 DEF Acted
<1>4. \A b : Effects(b, y) = Effects(b, x)
  BY <1>2 DEF Effects
<1> QED
  BY <1>1, <1>3, <1>4 DEF Does

LEMMA CollapsedIs ==
  ASSUME NEW s \in Seq(Kept), s # <<>>
  PROVE  Collapsed(s) \in Seq(Kept) /\ Collapsed(s) # <<>>
<1> DEFINE n == Len(s)
<1>1. PICK u : Makes(s, n, u) /\ Collapsed(s) = u[n]
  BY CollapsedMakes
<1>2. /\ u \in [0..n -> Seq(Kept)]
      /\ \A i \in 1..n : u[i] = Merge(u[i - 1], s[i])
  BY <1>1 DEF Makes
<1>3. n \in 1..n /\ n \in 0..n /\ n - 1 \in 0..n
  BY EmptySeq
<1>4. s[n] \in Kept
  BY <1>3, ElementOfSeq
<1> HIDE DEF n
<1>5. u[n] = Merge(u[n - 1], s[n]) /\ u[n - 1] \in Seq(Kept)
  BY <1>2, <1>3
<1> QED
  BY <1>1, <1>4, <1>5, MergeKeeps

LEMMA EnteredIs ==
  ASSUME session.target \in Pages, NEW s \in Seq(Kept)
  PROVE  Entered(s) \in Seq(Kept) /\ Entered(s) # <<>>
<1> DEFINE g == Goto(session.target)
<1>1. g \in Kept
  BY NewStepIs
<1>2. Entered(s) = IF s # <<>> /\ Head(s).type = "navigate" THEN s ELSE <<g>> \o s
  BY DEF Entered
<1> HIDE DEF g
<1>3. <<g>> \in Seq(Kept) /\ Len(<<g>>) = 1
  BY <1>1
<1>4. <<g>> \o s \in Seq(Kept) /\ Len(<<g>> \o s) = 1 + Len(s) /\ Len(s) \in Nat
  BY <1>3, ConcatProperties
<1>5. <<g>> \o s # <<>>
  BY <1>4
<1> QED
  BY <1>2, <1>4, <1>5

\* A test has the steps of the recording as collapseSteps() leaves them, one by one.
LEMMA ConvertedIs ==
  ASSUME session.target \in Pages, NEW s \in Seq(Kept)
  PROVE  LET c == Collapsed(Entered(s)) IN
           /\ Converted(s) \in Seq(Kept) /\ Len(Converted(s)) = Len(c) /\ Len(c) \in Nat \ {0}
           /\ c \in Seq(Kept)
           /\ \A i \in 1..Len(c) : c[i] \in Kept /\ Converted(s)[i] = ToTestStep(c[i])
<1> DEFINE c == Collapsed(Entered(s))
<1>1. c \in Seq(Kept) /\ c # <<>>
  BY EnteredIs, CollapsedIs
<1>2. Converted(s) = [i \in 1..Len(c) |-> ToTestStep(c[i])]
  BY DEF Converted
<1> HIDE DEF c
<1>3. Len(c) \in Nat \ {0} /\ \A i \in 1..Len(c) : c[i] \in Kept
  BY <1>1, EmptySeq, ElementOfSeq
<1>4. \A i \in 1..Len(c) : ToTestStep(c[i]) \in Kept
  BY <1>3, ToTestStepIs
<1>5. Converted(s) \in Seq(Kept) /\ Len(Converted(s)) = Len(c)
  BY <1>2, <1>3, <1>4
<1>6. \A i \in 1..Len(c) : Converted(s)[i] = ToTestStep(c[i])
  BY <1>2
<1> QED
  BY <1>1, <1>3, <1>5, <1>6 DEF c

\* A test does what its recording does.
LEMMA YieldsConverted ==
  ASSUME site \in Site, session.target \in Pages, NEW s \in Seq(Kept),
         NEW x, Yields(<<Goto(session.target)>> \o s, x)
  PROVE  /\ Yields(Converted(s), x)
         /\ \A i \in 1..Len(Converted(s)) : Marked(Converted(s)[i])
<1> DEFINE c == Collapsed(Entered(s))
           d == Converted(s)
<1>1. Yields(c, x)
  BY YieldsEntered, YieldsCollapsed
<1>2. /\ d \in Seq(Kept) /\ Len(d) = Len(c) /\ c \in Seq(Kept)
      /\ \A i \in 1..Len(c) : c[i] \in Kept /\ d[i] = ToTestStep(c[i])
  BY ConvertedIs
<1> HIDE DEF c, d
<1>3. PICK f : Plays(f, c) /\ f[Len(c)] = x
  BY <1>1 DEF Yields
<1>4. \A i \in 1..Len(c) : /\ Marked(d[i])
                           /\ \A st : (Can(st, d[i]) <=> Can(st, c[i])) /\ Does(st, d[i]) = Does(st, c[i])
  <2> SUFFICES ASSUME NEW i \in 1..Len(c)
               PROVE  /\ Marked(d[i])
                      /\ \A st : (Can(st, d[i]) <=> Can(st, c[i])) /\ Does(st, d[i]) = Does(st, c[i])
    OBVIOUS
  <2>1. c[i] \in Kept /\ d[i] = ToTestStep(c[i])
    BY <1>2
  <2>2. /\ Marked(d[i]) /\ d[i].type = c[i].type /\ d[i].point = c[i].point /\ d[i].sel = c[i].sel
        /\ d[i].text = c[i].text /\ d[i].page = c[i].page
    BY <2>1, ToTestStepIs
  <2>3. \A st : (Can(st, d[i]) <=> Can(st, c[i])) /\ Does(st, d[i]) = Does(st, c[i])
    BY <2>2, DoesAlike
  <2> QED
    BY <2>2, <2>3
<1>5. Plays(f, d) /\ f[Len(d)] = x
  BY <1>2, <1>3, <1>4 DEF Plays
<1> QED
  BY <1>2, <1>4, <1>5 DEF Yields, d

(***************************************************************************)
(* Types                                                                   *)
(***************************************************************************)

HandlerStages == {"idle", "resolve", "act", "loading", "capture", "done"}

\* What a handler does can be done: a click has a point and a navigation has a page.
CanDo(x) ==
  /\ x.do.type = "click" => x.do.point \in Points
  /\ x.do.type = "navigate" => x.do.page \in Pages
  /\ x.at = "resolve" => x.do.point # None

CaptureTypes ==
  /\ CaptureTypeOK
  /\ browser.page \in Pages
  /\ \A h \in 1..MaxActions : CanDo(handler[h])

LEMMA CaptureTypesAre ==
  ASSUME CaptureTypes
  PROVE  /\ site \in Site /\ browser \in Browser /\ browser.page \in Pages /\ browser.page # None
         /\ browser.to \in Pages \cup {None} /\ None \notin Pages /\ None \notin Points
         /\ effects \in Seq(Effect)
         /\ handler \in [1..MaxActions -> Handler]
         /\ \A h \in 1..MaxActions : CanDo(handler[h])
         /\ wire \in Seq(Kept)
         /\ session \in [st : {"active", "stopping", "over"}, target : Pages, steps : Seq(Kept)]
         /\ session.target \in Pages /\ session.steps \in Seq(Kept)
         /\ recording # None => recording \in Seq(Kept)
         /\ tests \in Seq(Seq(Kept)) /\ Len(tests) <= MaxTests
BY CaptureAssumption, BrowserIs DEF CaptureTypes, CaptureTypeOK

LEMMA HandlerIs ==
  /\ \A x \in Handler : /\ x.at \in HandlerStages /\ x.do \in Step
                        /\ x = [at |-> x.at, do |-> x.do]
  /\ \A at \in HandlerStages, do \in Step : [at |-> at, do |-> do] \in Handler
BY DEF Handler, HandlerStages

\* What was asked of a handler, in the fields that matter.
LEMMA ReSel ==
  ASSUME NEW x \in Step, NEW p \in Points \cup {None}
  PROVE  /\ LET y == [x EXCEPT !.sel = p] IN
              /\ y \in Step /\ y.sel = p /\ y.type = x.type /\ y.point = x.point
              /\ y.text = x.text /\ y.page = x.page
         /\ LET y == [x EXCEPT !.point = p] IN
              /\ y \in Step /\ y.point = p /\ y.type = x.type /\ y.sel = x.sel
              /\ y.text = x.text /\ y.page = x.page
BY DEF Step

LEMMA HandlerSet ==
  ASSUME handler \in [1..MaxActions -> Handler], NEW h \in 1..MaxActions, NEW y \in Handler,
         handler' = [handler EXCEPT ![h] = y]
  PROVE  /\ handler' \in [1..MaxActions -> Handler] /\ handler'[h] = y
         /\ \A g \in 1..MaxActions : g # h => handler'[g] = handler[g]
OBVIOUS

LEMMA AtIs ==
  ASSUME handler \in [1..MaxActions -> Handler], NEW h \in 1..MaxActions,
         NEW at \in HandlerStages, At(h, at)
  PROVE  /\ handler' \in [1..MaxActions -> Handler]
         /\ handler'[h] = [at |-> at, do |-> handler[h].do]
         /\ \A g \in 1..MaxActions : g # h => handler'[g] = handler[g]
<1> DEFINE y == [at |-> at, do |-> handler[h].do]
<1>1. handler[h] \in Handler
  OBVIOUS
<1>2. y \in Handler
  BY <1>1, HandlerIs
<1>3. [handler[h] EXCEPT !.at = at] = y
  BY <1>1 DEF Handler
<1>4. handler' = [handler EXCEPT ![h] = y]
  BY <1>3 DEF At
<1> HIDE DEF y
<1>5. /\ handler' \in [1..MaxActions -> Handler] /\ handler'[h] = y
      /\ \A g \in 1..MaxActions : g # h => handler'[g] = handler[g]
  BY <1>2, <1>4, HandlerSet
<1> QED
  BY <1>5 DEF y

\* What the user asks for.
LEMMA UseIs ==
  ASSUME CaptureTypes, Use
  PROVE  \E step \in Step : /\ Perform(step) /\ step.sel = None
                            /\ step.type = "click" => step.point \in Points
                            /\ step.type # "click" => step.point = None
                            /\ step.type = "navigate" => step.page \in Pages
<1>0. NewStep \in Step
  BY NewStepIs, KeptIs
<1>1. CASE \E p \in Points : Perform([NewStep EXCEPT !.type = "click", !.point = p])
  <2>1. PICK p \in Points : Perform([NewStep EXCEPT !.type = "click", !.point = p])
    BY <1>1
  <2> DEFINE c == [NewStep EXCEPT !.type = "click"]
             step == [c EXCEPT !.point = p]
  <2>2. c \in Step /\ c.type = "click" /\ c.sel = None
    BY <1>0, NewStepIs DEF Step
  <2>3. [NewStep EXCEPT !.type = "click", !.point = p] = step
    OBVIOUS
  <2> HIDE DEF c
  <2>4. step \in Step /\ step.type = "click" /\ step.sel = None /\ step.point = p
    BY <2>2, ReSel
  <2>5. Perform(step)
    BY <2>1, <2>3
  <2> HIDE DEF step
  <2> QED
    BY <2>4, <2>5
<1>2. CASE \E c \in Chars : Perform([NewStep EXCEPT !.type = "type", !.text = <<c>>])
  <2>1. PICK c \in Chars : Perform([NewStep EXCEPT !.type = "type", !.text = <<c>>])
    BY <1>2
  <2> DEFINE b == [NewStep EXCEPT !.type = "type"]
             text == <<c>>
             step == [b EXCEPT !.text = text]
  <2>2. b \in Step /\ b.type = "type" /\ b.sel = None /\ b.point = None
    BY <1>0, NewStepIs DEF Step
  <2>3. [NewStep EXCEPT !.type = "type", !.text = <<c>>] = step
    OBVIOUS
  <2>4. text \in Seq(Chars)
    OBVIOUS
  <2> HIDE DEF b, text
  <2>5. step \in Step /\ step.type = "type" /\ step.sel = None /\ step.point = None
    BY <2>2, <2>4 DEF Step
  <2>6. Perform(step)
    BY <2>1, <2>3
  <2> HIDE DEF step
  <2> QED
    BY <2>5, <2>6
<1>3. CASE Perform(NewStep)
  BY <1>0, <1>3, NewStepIs
<1>4. CASE \E p \in Pages : Perform(Goto(p))
  <2>1. PICK p \in Pages : Perform(Goto(p))
    BY <1>4
  <2> DEFINE step == Goto(p)
  <2>2. step \in Step /\ step.type = "navigate" /\ step.page = p /\ step.sel = None /\ step.point = None
    BY NewStepIs, KeptIs
  <2>3. Perform(step)
    BY <2>1
  <2> HIDE DEF step
  <2> QED
    BY <2>2, <2>3
<1> QED
  BY <1>1, <1>2, <1>3, <1>4 DEF Use

\* One handler takes what the user asked for.
LEMMA PerformIs ==
  ASSUME CaptureTypes, NEW step \in Step, Perform(step)
  PROVE  \E h \in 1..MaxActions :
           /\ handler[h].at = "idle" /\ session.st = "active"
           /\ handler' \in [1..MaxActions -> Handler]
           /\ handler'[h].do = step
           /\ handler'[h].at = IF ~online THEN "done" ELSE IF step.point = None THEN "act" ELSE "resolve"
           /\ \A g \in 1..MaxActions : g # h => handler'[g] = handler[g]
           /\ "hasty" \notin may => Settled
           /\ UNCHANGED <<site, browser, effects, online, wire, session, recording, tests, may>>
<1>1. PICK h \in 1..MaxActions :
        /\ session.st = "active"
        /\ \/ "hasty" \in may /\ h <= MaxHasty
           \/ "hasty" \notin may /\ Settled /\ (wire = <<>> \/ ~online)
        /\ handler[h].at = "idle"
        /\ handler' = [handler EXCEPT ![h] =
             [at |-> IF ~online THEN "done" ELSE IF step.point = None THEN "act" ELSE "resolve", do |-> step]]
        /\ UNCHANGED <<site, browser, effects, online, wire, session, recording, tests, may>>
  BY DEF Perform
<1> DEFINE at == IF ~online THEN "done" ELSE IF step.point = None THEN "act" ELSE "resolve"
           y == [at |-> at, do |-> step]
<1>2. at \in HandlerStages
  BY DEF HandlerStages
<1>3. y \in Handler /\ y.at = at /\ y.do = step
  BY <1>2, HandlerIs
<1>4. handler' = [handler EXCEPT ![h] = y]
  BY <1>1
<1> HIDE DEF y
<1>5. /\ handler' \in [1..MaxActions -> Handler] /\ handler'[h] = y
      /\ \A g \in 1..MaxActions : g # h => handler'[g] = handler[g]
  BY <1>3, <1>4, CaptureTypesAre, HandlerSet
<1> QED
  BY <1>1, <1>3, <1>5

LEMMA ResolveIs ==
  ASSUME CaptureTypes, NEW h \in 1..MaxActions, Resolve(h)
  PROVE  LET x == handler[h].do
             y == handler'[h].do IN
           /\ handler[h].at = "resolve" /\ handler'[h].at = "act"
           /\ handler' \in [1..MaxActions -> Handler]
           /\ y.type = x.type /\ y.point = x.point /\ y.text = x.text /\ y.page = x.page
           /\ \/ y.sel = site.selector[<<browser.page, x.point>>]
              \/ browser.to # None /\ y = x
           /\ \A g \in 1..MaxActions : g # h => handler'[g] = handler[g]
           /\ UNCHANGED <<site, browser, effects, online, wire, session, recording, tests, may>>
<1>0. /\ handler[h].at = "resolve" /\ handler \in [1..MaxActions -> Handler] /\ handler[h] \in Handler
      /\ UNCHANGED <<site, browser, effects, online, wire, session, recording, tests, may>>
  BY CaptureTypesAre DEF Resolve
<1> DEFINE x == handler[h].do
           p == site.selector[<<browser.page, x.point>>]
<1>1. x \in Step /\ handler[h] = [at |-> "resolve", do |-> x]
  BY <1>0, HandlerIs
<1>2. p \in Points
  <2>1. x.point \in Points
    <3>1. x.point \in Points \cup {None}
      BY <1>1 DEF Step
    <3> QED
      BY <1>0, <3>1, CaptureTypesAre DEF CanDo
  <2>2. <<browser.page, x.point>> \in Element
    BY <2>1, CaptureTypesAre DEF Element
  <2>3. site.selector \in [Element -> Points]
    BY CaptureTypesAre DEF Site
  <2> QED
    BY <2>2, <2>3
<1>3. \/ handler' = [handler EXCEPT ![h].at = "act", ![h].do.sel = p]
      \/ browser.to # None /\ At(h, "act")
  BY DEF Resolve
<1> HIDE DEF p
<1>4. CASE handler' = [handler EXCEPT ![h].at = "act", ![h].do.sel = p]
  <2> DEFINE z == [x EXCEPT !.sel = p]
             y == [at |-> "act", do |-> z]
  <2>0. ASSUME NEW s \in Step
        PROVE  LET r == [s EXCEPT !.sel = p] IN
                 /\ r \in Step /\ r.sel = p /\ r.type = s.type /\ r.point = s.point
                 /\ r.text = s.text /\ r.page = s.page
    BY <1>2, ReSel
  <2>1. /\ z \in Step /\ z.sel = p /\ z.type = x.type /\ z.point = x.point
        /\ z.text = x.text /\ z.page = x.page
    BY <1>1, <2>0, Zenon
  <2>2. handler' = [handler EXCEPT ![h] = y]
    <3> DEFINE a == [handler[h] EXCEPT !.at = "act"]
    <3>1. a = [at |-> "act", do |-> x]
      BY <1>1
    <3>2. handler' = [handler EXCEPT ![h] = [a EXCEPT !.do.sel = p]]
      BY <1>0, <1>4
    <3> HIDE DEF a
    <3>3. [a EXCEPT !.do.sel = p] = y
      BY <3>1
    <3> QED
      BY <3>2, <3>3
  <2> HIDE DEF z
  <2>3. y \in Handler /\ y.at = "act" /\ y.do = z
    BY <2>1, HandlerIs DEF HandlerStages
  <2> HIDE DEF y
  <2>4. /\ handler' \in [1..MaxActions -> Handler] /\ handler'[h] = y
        /\ \A g \in 1..MaxActions : g # h => handler'[g] = handler[g]
    BY <1>0, <2>2, <2>3, HandlerSet
  <2> QED
    BY <1>0, <2>1, <2>3, <2>4 DEF p
<1>5. CASE browser.to # None /\ At(h, "act")
  <2>1. /\ handler' \in [1..MaxActions -> Handler]
        /\ handler'[h] = [at |-> "act", do |-> x]
        /\ \A g \in 1..MaxActions : g # h => handler'[g] = handler[g]
    BY <1>0, <1>5, AtIs DEF HandlerStages
  <2> QED
    BY <1>0, <1>5, <2>1
<1> QED
  BY <1>3, <1>4, <1>5

\* A step as it is done, at its point.
Here(do) == [do EXCEPT !.sel = None]

LEMMA HereIs ==
  ASSUME CaptureTypes, NEW h \in 1..MaxActions
  PROVE  LET do == handler[h].do IN
           /\ do \in Step /\ Here(do) \in Kept /\ Here(do).sel = None /\ Here(do).type = do.type
           /\ Here(do).point = do.point /\ Here(do).text = do.text /\ Here(do).page = do.page
           /\ Here(do).type = "click" => Here(do).point \in Points
<1> DEFINE do == handler[h].do
           here == Here(do)
<1>1. do \in Step
  BY CaptureTypesAre, HandlerIs
<1>2. do.type = "click" => do.point \in Points
  BY CaptureTypesAre DEF CanDo
<1> HIDE DEF do
<1>3. /\ here \in Step /\ here.sel = None /\ here.type = do.type /\ here.point = do.point
      /\ here.text = do.text /\ here.page = do.page
  BY <1>1, ReSel DEF Here
<1> HIDE DEF here
<1>4. here.type = "click" => (here.sel = None) # (here.point = None)
  <2>1. here.type = "click" => here.sel = None /\ here.point # None
    BY <1>2, <1>3, CaptureTypesAre
  <2> QED
    BY <2>1
<1>5. here \in Kept
  BY <1>3, <1>4 DEF Kept
<1> QED
  BY <1>1, <1>2, <1>3, <1>5 DEF do, here

LEMMA ActIs ==
  ASSUME CaptureTypes, NEW h \in 1..MaxActions, Act(h)
  PROVE  /\ handler[h].at = "act" /\ handler' \in [1..MaxActions -> Handler]
         /\ handler'[h].do = handler[h].do
         /\ \A g \in 1..MaxActions : g # h => handler'[g] = handler[g]
         /\ UNCHANGED <<site, online, wire, session, recording, tests, may>>
         /\ browser' \in Browser /\ browser'.page = browser.page
         /\ \E u \in Seq(Effect) : effects' = effects \o u
         /\ handler[h].do.type = "navigate" =>
              /\ handler'[h].at = "loading" /\ effects' = effects
              /\ browser' = [browser EXCEPT !.to = handler[h].do.page]
              /\ browser'.to = handler[h].do.page
         /\ handler[h].do.type # "navigate" =>
              /\ handler'[h].at = "capture" /\ browser' = Acted(browser, Here(handler[h].do))
              /\ effects' = effects \o Effects(browser, Here(handler[h].do))
              /\ Effects(browser, Here(handler[h].do)) \in Seq(Effect)
<1> DEFINE do == handler[h].do
           here == Here(do)
<1>1. /\ handler[h].at = "act" /\ UNCHANGED <<site, online, wire, session, recording, tests, may>>
      /\ handler \in [1..MaxActions -> Handler] /\ browser \in Browser
  BY CaptureTypesAre DEF Act
<1>2. /\ do.type = "navigate" =>
           At(h, "loading") /\ browser' = [browser EXCEPT !.to = do.page] /\ UNCHANGED effects
      /\ do.type # "navigate" =>
           /\ At(h, "capture")
           /\ browser' = Acted(browser, here) /\ effects' = effects \o Effects(browser, here)
  BY DEF Act, Here
<1>3. do.type = "navigate" => do.page \in Pages
  BY CaptureTypesAre DEF CanDo
<1>4. here \in Kept /\ here.sel = None /\ (here.type = "click" => here.point \in Points)
  BY HereIs
<1> HIDE DEF here
<1>5. CASE do.type = "navigate"
  <2>1. /\ handler' \in [1..MaxActions -> Handler]
        /\ handler'[h] = [at |-> "loading", do |-> do]
        /\ \A g \in 1..MaxActions : g # h => handler'[g] = handler[g]
    BY <1>1, <1>2, <1>5, AtIs DEF HandlerStages
  <2> DEFINE p == do.page
  <2>2. p \in Pages /\ browser' = [browser EXCEPT !.to = p]
    BY <1>2, <1>3, <1>5
  <2> HIDE DEF p
  <2>3. browser' \in Browser /\ browser'.page = browser.page /\ browser'.to = p
    BY <1>1, <2>2 DEF Browser
  <2>4. effects \o <<>> = effects /\ <<>> \in Seq(Effect)
    BY CaptureTypesAre, ConcatEmptySeq, EmptySeq
  <2>5. handler'[h].at = "loading" /\ handler'[h].do = do
    BY <2>1
  <2>6. \E u \in Seq(Effect) : effects' = effects \o u
    BY <1>2, <1>5, <2>4
  <2> QED
    BY <1>1, <1>2, <1>5, <2>1, <2>2, <2>3, <2>5, <2>6 DEF p
<1>6. CASE do.type # "navigate"
  <2>1. /\ handler' \in [1..MaxActions -> Handler]
        /\ handler'[h] = [at |-> "capture", do |-> do]
        /\ \A g \in 1..MaxActions : g # h => handler'[g] = handler[g]
    BY <1>1, <1>2, <1>6, AtIs DEF HandlerStages
  <2>2. here.type = "click" => Found(browser, here) \in Points
    BY <1>4 DEF Found
  <2>3. /\ Acted(browser, here) \in Browser /\ Acted(browser, here).page = browser.page
        /\ Effects(browser, here) \in Seq(Effect)
    BY <1>1, <1>4, <2>2, CaptureTypesAre, ActedIs
  <2>4. handler'[h].at = "capture" /\ handler'[h].do = do
    BY <2>1
  <2>5. browser' = Acted(browser, here) /\ effects' = effects \o Effects(browser, here)
    BY <1>2, <1>6
  <2>6. \E u \in Seq(Effect) : effects' = effects \o u
    BY <2>3, <2>5
  <2> QED
    BY <1>1, <1>6, <2>1, <2>3, <2>4, <2>5, <2>6 DEF here
<1> QED
  BY <1>5, <1>6

LEMMA CapturedIs ==
  ASSUME CaptureTypes, NEW h \in 1..MaxActions
  PROVE  LET do == handler[h].do
             x == Captured(do) IN
           /\ x \in Kept /\ x.type = do.type /\ x.text = do.text /\ x.page = do.page /\ x.sel = do.sel
           /\ x.sel = None => x.point = do.point
<1> DEFINE do == handler[h].do
           x == Captured(do)
           here == [do EXCEPT !.point = None]
<1>1. do \in Step
  BY CaptureTypesAre, HandlerIs
<1>2. do.type = "click" => do.point \in Points
  BY CaptureTypesAre DEF CanDo
<1>3. x = IF do.sel = None THEN do ELSE here
  BY DEF Captured
<1> HIDE DEF do, x
<1>4. /\ here \in Step /\ here.point = None /\ here.type = do.type /\ here.sel = do.sel
      /\ here.text = do.text /\ here.page = do.page
  BY <1>1, ReSel
<1> HIDE DEF here
<1>5. CASE do.sel = None
  <2>1. x = do
    BY <1>3, <1>5
  <2>2. do.type = "click" => do.point # None
    BY <1>2, CaptureTypesAre
  <2>3. do.type = "click" => (do.sel = None) # (do.point = None)
    BY <1>5, <2>2
  <2> QED
    BY <1>1, <2>1, <2>3 DEF Kept, do, x
<1>6. CASE do.sel # None
  <2>1. x = here
    BY <1>3, <1>6
  <2>3. (here.sel = None) # (here.point = None)
    BY <1>4, <1>6
  <2> QED
    BY <1>4, <1>6, <2>1, <2>3 DEF Kept, do, x
<1> QED
  BY <1>5, <1>6

\* A page is there: the handlers that waited for it go on, or not.
LEMMA CommitIs ==
  ASSUME CaptureTypes, Commit
  PROVE  /\ browser.to \in Pages /\ browser' = Loaded(browser, browser.to)
         /\ browser' \in Browser /\ browser'.page = browser.to
         /\ "quick" \in may \/ \A h \in 1..MaxActions : handler[h].at # "capture"
         /\ handler' \in [1..MaxActions -> Handler]
         /\ \A h \in 1..MaxActions :
              /\ handler'[h].do = handler[h].do
              /\ handler'[h].at = IF handler[h].at # "loading" THEN handler[h].at
                                  ELSE IF handler[h].do.page = browser.to THEN "capture" ELSE "done"
              /\ handler[h].at # "loading" => handler'[h] = handler[h]
         /\ wire' = Append(wire, Goto(browser.to))
         /\ UNCHANGED <<site, effects, online, session, recording, tests, may>>
<1>1. browser.to \in Pages
  BY CaptureTypesAre DEF Commit
<1>2. browser' = [page |-> browser.to, focus |-> None, to |-> None]
  BY DEF Commit, Loaded
<1>3. browser' \in Browser /\ browser'.page = browser.to
  BY <1>1, <1>2, BrowserIs
<1> DEFINE resumed(h) == IF handler[h].at # "loading" THEN handler[h]
                      ELSE [handler[h] EXCEPT !.at = IF handler[h].do.page = browser.to THEN "capture" ELSE "done"]
<1>4. handler' = [h \in 1..MaxActions |-> resumed(h)]
  BY DEF Commit
<1>5. \A h \in 1..MaxActions :
        /\ resumed(h) \in Handler /\ resumed(h).do = handler[h].do
        /\ resumed(h).at = IF handler[h].at # "loading" THEN handler[h].at
                        ELSE IF handler[h].do.page = browser.to THEN "capture" ELSE "done"
        /\ handler[h].at # "loading" => resumed(h) = handler[h]
  <2> SUFFICES ASSUME NEW h \in 1..MaxActions
      PROVE /\ resumed(h) \in Handler /\ resumed(h).do = handler[h].do
            /\ resumed(h).at = IF handler[h].at # "loading" THEN handler[h].at
                            ELSE IF handler[h].do.page = browser.to THEN "capture" ELSE "done"
            /\ handler[h].at # "loading" => resumed(h) = handler[h]
    OBVIOUS
  <2>1. handler[h] \in Handler
    BY CaptureTypesAre
  <2> QED
    BY <2>1 DEF Handler
<1> HIDE DEF resumed
<1> QED
  BY <1>1, <1>3, <1>4, <1>5 DEF Commit, Emit

LEMMA NotLoadedIs ==
  ASSUME CaptureTypes, NotLoaded
  PROVE  /\ "broken" \in may /\ browser' \in Browser /\ browser'.page = browser.page
         /\ handler' \in [1..MaxActions -> Handler]
         /\ \A h \in 1..MaxActions :
              /\ handler'[h].do = handler[h].do
              /\ handler'[h].at = IF handler[h].at # "loading" THEN handler[h].at ELSE "done"
         /\ UNCHANGED <<site, effects, online, wire, session, recording, tests, may>>
<1>1. browser' = [browser EXCEPT !.to = None]
  BY DEF NotLoaded
<1>2. browser' \in Browser /\ browser'.page = browser.page
  BY <1>1, CaptureTypesAre DEF Browser
<1> DEFINE ended(h) == IF handler[h].at # "loading" THEN handler[h] ELSE [handler[h] EXCEPT !.at = "done"]
<1>4. handler' = [h \in 1..MaxActions |-> ended(h)]
  BY DEF NotLoaded
<1>5. \A h \in 1..MaxActions :
        /\ ended(h) \in Handler /\ ended(h).do = handler[h].do
        /\ ended(h).at = IF handler[h].at # "loading" THEN handler[h].at ELSE "done"
  <2> SUFFICES ASSUME NEW h \in 1..MaxActions
      PROVE /\ ended(h) \in Handler /\ ended(h).do = handler[h].do
            /\ ended(h).at = IF handler[h].at # "loading" THEN handler[h].at ELSE "done"
    OBVIOUS
  <2>1. handler[h] \in Handler
    BY CaptureTypesAre
  <2> QED
    BY <2>1 DEF Handler
<1> HIDE DEF ended
<1> QED
  BY <1>2, <1>4, <1>5 DEF NotLoaded

\* The service takes the first of what is on its way.
LEMMA DeliverIs ==
  ASSUME CaptureTypes, Deliver
  PROVE  /\ wire # <<>> /\ wire' = Tail(wire) /\ wire' \in Seq(Kept) /\ Head(wire) \in Kept
         /\ session' \in [st : {"active", "stopping", "over"}, target : Pages, steps : Seq(Kept)]
         /\ session'.st = session.st /\ session'.target = session.target
         /\ session.st # "over" => session'.steps = Append(session.steps, Head(wire))
         /\ session.st = "over" => session' = session
         /\ UNCHANGED <<site, browser, effects, handler, online, recording, tests, may>>
<1>1. wire # <<>> /\ wire' = Tail(wire) /\ Head(wire) \in Kept /\ Tail(wire) \in Seq(Kept)
  BY CaptureTypesAre, HeadTailProperties DEF Deliver
<1> DEFINE x == Head(wire)
<1>2. session' = IF session.st = "over" THEN session ELSE [session EXCEPT !.steps = Append(@, x)]
  BY DEF Deliver
<1>3. UNCHANGED <<site, browser, effects, handler, online, recording, tests, may>>
  BY DEF Deliver, browserVars
<1> HIDE DEF x
<1>4. CASE session.st = "over"
  BY <1>1, <1>2, <1>3, <1>4, CaptureTypesAre
<1>5. CASE session.st # "over"
  <2>1. session' = [session EXCEPT !.steps = Append(session.steps, x)]
    BY <1>2, <1>5
  <2>2. Append(session.steps, x) \in Seq(Kept)
    BY <1>1, CaptureTypesAre, AppendProperties DEF x
  <2>3. /\ session' \in [st : {"active", "stopping", "over"}, target : Pages, steps : Seq(Kept)]
        /\ session'.st = session.st /\ session'.target = session.target
        /\ session'.steps = Append(session.steps, x)
    BY <2>1, <2>2, CaptureTypesAre
  <2> QED
    BY <1>1, <1>3, <1>5, <2>3 DEF x
<1> QED
  BY <1>4, <1>5

LEMMA ReSession ==
  ASSUME CaptureTypes, NEW st \in {"active", "stopping", "over"},
         session' = [session EXCEPT !.st = st]
  PROVE  /\ session' \in [st : {"active", "stopping", "over"}, target : Pages, steps : Seq(Kept)]
         /\ session'.st = st /\ session'.target = session.target /\ session'.steps = session.steps
BY CaptureTypesAre

LEMMA ConvertIs ==
  ASSUME CaptureTypes, Convert
  PROVE  /\ recording # None /\ recording \in Seq(Kept)
         /\ session.st = "over" \/ "part" \in may
         /\ tests' = Append(tests, Converted(recording)) /\ Converted(recording) \in Seq(Kept)
         /\ tests' \in Seq(Seq(Kept)) /\ Len(tests') = Len(tests) + 1 /\ Len(tests') <= MaxTests
         /\ Len(tests) \in Nat /\ tests'[Len(tests) + 1] = Converted(recording)
         /\ \A t \in 1..Len(tests) : tests'[t] = tests[t]
         /\ UNCHANGED <<site, browser, effects, handler, online, wire, session, recording, may>>
<1>1. recording # None /\ recording \in Seq(Kept) /\ tests' = Append(tests, Converted(recording))
  BY CaptureTypesAre DEF Convert
<1>2. Converted(recording) \in Seq(Kept)
  BY <1>1, CaptureTypesAre, ConvertedIs
<1>3. Len(tests) < MaxTests \/ Len(tests) < 1
  BY DEF Convert
<1>4. /\ tests' \in Seq(Seq(Kept)) /\ Len(tests') = Len(tests) + 1 /\ Len(tests) \in Nat
      /\ tests'[Len(tests) + 1] = Converted(recording)
      /\ \A t \in 1..Len(tests) : tests'[t] = tests[t]
  BY <1>1, <1>2, CaptureTypesAre, AppendProperties
<1>5. Len(tests') <= MaxTests
  BY <1>3, <1>4, CaptureAssumption
<1>6. /\ session.st = "over" \/ "part" \in may
      /\ UNCHANGED <<site, browser, effects, handler, online, wire, session, recording, may>>
  BY DEF Convert, browserVars
<1> QED
  BY <1>1, <1>2, <1>4, <1>5, <1>6

LEMMA InitCaptureTypes == Init => CaptureTypes
<1> SUFFICES ASSUME Init PROVE CaptureTypes
  OBVIOUS
<1>1. PICK p \in Pages :
        /\ browser = [page |-> p, focus |-> None, to |-> None]
        /\ IF "saved" \in may
           THEN /\ recording \in {<<Goto(p), NewStep>>, <<NewStep, NewStep>>}
                /\ session = [st |-> "over", target |-> p, steps |-> recording]
           ELSE recording = None /\ session = [st |-> "active", target |-> p, steps |-> <<>>]
  BY DEF Init, CaptureInit
<1> DEFINE g == Goto(p)
           k == NewStep
<1>2. g \in Kept /\ k \in Kept
  BY NewStepIs
<1>3. <<g, k>> \in Seq(Kept) /\ <<k, k>> \in Seq(Kept)
  BY <1>2
<1>4. /\ recording = None \/ recording \in Seq(Kept)
      /\ session \in [st : {"active", "stopping", "over"}, target : Pages, steps : Seq(Kept)]
  <2> DEFINE a == <<g, k>>
             b == <<k, k>>
             none == <<>>
  <2>1. a \in Seq(Kept) /\ b \in Seq(Kept) /\ none \in Seq(Kept)
    BY <1>3, EmptySeq
  <2>2. \/ recording \in {a, b} /\ session = [st |-> "over", target |-> p, steps |-> recording]
        \/ recording = None /\ session = [st |-> "active", target |-> p, steps |-> none]
    BY <1>1
  <2> HIDE DEF a, b, none
  <2> QED
    BY <2>1, <2>2
<1>5. browser \in Browser /\ browser.page \in Pages
  BY <1>1, BrowserIs
<1>6. handler \in [1..MaxActions -> Handler] /\ \A h \in 1..MaxActions : CanDo(handler[h])
  <2>1. Idle \in Handler /\ CanDo(Idle)
    <3>1. Idle.at = "idle" /\ Idle.do = NewStep
      BY DEF Idle
    <3>2. Idle \in Handler
      <4>1. NewStep \in Step
        BY NewStepIs, KeptIs
      <4> QED
        BY <4>1, HandlerIs DEF Idle, HandlerStages
    <3> QED
      BY <3>1, <3>2, NewStepIs DEF CanDo
  <2>2. handler = [h \in 1..MaxActions |-> Idle]
    BY DEF Init, CaptureInit
  <2> QED
    BY <2>1, <2>2
<1>7. /\ site \in Sites /\ effects = <<>> /\ online = TRUE /\ wire = <<>> /\ tests = <<>>
      /\ may \in Environments
  BY DEF Init, CaptureInit
<1>8. may \subseteq Circumstances /\ MaxTests \in Nat
  BY <1>7, CaptureAssumption
<1>9. /\ <<>> \in Seq(Effect) /\ <<>> \in Seq(Kept) /\ <<>> \in Seq(Seq(Kept)) /\ Len(<<>>) = 0
  BY EmptySeq
<1>10. effects \in Seq(Effect) /\ wire \in Seq(Kept) /\ tests \in Seq(Seq(Kept)) /\ Len(tests) <= MaxTests
  BY <1>7, <1>8, <1>9
<1> QED
  BY <1>4, <1>5, <1>6, <1>7, <1>8, <1>10 DEF CaptureTypes, CaptureTypeOK

LEMMA NextCaptureTypes ==
  ASSUME CaptureTypes, CaptureNext
  PROVE  CaptureTypes'
<1>0. /\ site \in Sites /\ may \subseteq Circumstances /\ online \in BOOLEAN
      /\ handler \in [1..MaxActions -> Handler] /\ \A h \in 1..MaxActions : CanDo(handler[h])
      /\ browser \in Browser /\ browser.page \in Pages /\ effects \in Seq(Effect)
      /\ wire \in Seq(Kept)
      /\ session \in [st : {"active", "stopping", "over"}, target : Pages, steps : Seq(Kept)]
      /\ recording = None \/ recording \in Seq(Kept)
      /\ tests \in Seq(Seq(Kept)) /\ Len(tests) <= MaxTests
  BY DEF CaptureTypes, CaptureTypeOK
<1>1. CASE Use
  <2>1. PICK step \in Step : /\ Perform(step) /\ step.sel = None
                             /\ step.type = "click" => step.point \in Points
                             /\ step.type # "click" => step.point = None
                             /\ step.type = "navigate" => step.page \in Pages
    BY <1>1, UseIs
  <2>2. PICK h \in 1..MaxActions :
           /\ handler' \in [1..MaxActions -> Handler]
           /\ handler'[h].do = step
           /\ handler'[h].at = IF ~online THEN "done" ELSE IF step.point = None THEN "act" ELSE "resolve"
           /\ \A g \in 1..MaxActions : g # h => handler'[g] = handler[g]
           /\ UNCHANGED <<site, browser, effects, online, wire, session, recording, tests, may>>
    BY <2>1, PerformIs
  <2>3. CanDo(handler'[h])
    BY <2>1, <2>2 DEF CanDo
  <2>4. \A g \in 1..MaxActions : CanDo(handler'[g])
    BY <1>0, <2>2, <2>3
  <2> QED
    BY <1>0, <2>2, <2>4 DEF CaptureTypes, CaptureTypeOK
<1>2. ASSUME NEW h \in 1..MaxActions, Resolve(h) PROVE CaptureTypes'
  <2>1. /\ handler'[h].at = "act" /\ handler' \in [1..MaxActions -> Handler]
        /\ handler'[h].do.type = handler[h].do.type /\ handler'[h].do.point = handler[h].do.point
        /\ handler'[h].do.page = handler[h].do.page
        /\ \A g \in 1..MaxActions : g # h => handler'[g] = handler[g]
        /\ UNCHANGED <<site, browser, effects, online, wire, session, recording, tests, may>>
    BY <1>2, ResolveIs
  <2>2. CanDo(handler'[h])
    BY <1>0, <2>1 DEF CanDo
  <2>3. \A g \in 1..MaxActions : CanDo(handler'[g])
    BY <1>0, <2>1, <2>2
  <2> QED
    BY <1>0, <2>1, <2>3 DEF CaptureTypes, CaptureTypeOK
<1>3. ASSUME NEW h \in 1..MaxActions, Act(h) PROVE CaptureTypes'
  <2>1. /\ handler' \in [1..MaxActions -> Handler] /\ handler'[h].do = handler[h].do
        /\ handler'[h].at \in {"loading", "capture"}
        /\ \A g \in 1..MaxActions : g # h => handler'[g] = handler[g]
        /\ UNCHANGED <<site, online, wire, session, recording, tests, may>>
        /\ browser' \in Browser /\ browser'.page = browser.page
        /\ \E u \in Seq(Effect) : effects' = effects \o u
    BY <1>3, ActIs
  <2>2. effects' \in Seq(Effect)
    BY <1>0, <2>1, ConcatProperties
  <2>3. CanDo(handler'[h])
    BY <1>0, <2>1 DEF CanDo
  <2>4. \A g \in 1..MaxActions : CanDo(handler'[g])
    BY <1>0, <2>1, <2>3
  <2> QED
    BY <1>0, <2>1, <2>2, <2>4 DEF CaptureTypes, CaptureTypeOK
<1>4. ASSUME NEW h \in 1..MaxActions, Capture(h) PROVE CaptureTypes'
  <2>1. At(h, "done") /\ wire' = Append(wire, Captured(handler[h].do))
        /\ UNCHANGED <<site, browser, effects, online, session, recording, tests, may>>
    BY <1>4 DEF Capture, Emit
  <2>2. /\ handler' \in [1..MaxActions -> Handler]
        /\ handler'[h] = [at |-> "done", do |-> handler[h].do]
        /\ \A g \in 1..MaxActions : g # h => handler'[g] = handler[g]
    BY <1>0, <2>1, AtIs DEF HandlerStages
  <2>3. wire' \in Seq(Kept)
    BY <1>0, <2>1, CapturedIs, AppendProperties
  <2>4. CanDo(handler'[h])
    BY <1>0, <2>2 DEF CanDo
  <2>5. \A g \in 1..MaxActions : CanDo(handler'[g])
    BY <1>0, <2>2, <2>4
  <2> QED
    BY <1>0, <2>1, <2>2, <2>3, <2>5 DEF CaptureTypes, CaptureTypeOK
<1>5. CASE Commit
  <2>1. \A h \in 1..MaxActions : CanDo(handler'[h])
    BY <1>0, <1>5, CommitIs DEF CanDo
  <2>2. wire' \in Seq(Kept)
    <3>1. browser.to \in Pages /\ wire' = Append(wire, Goto(browser.to))
      BY <1>5, CommitIs
    <3>2. Goto(browser.to) \in Kept
      BY <3>1, NewStepIs
    <3> QED
      BY <1>0, <3>1, <3>2, AppendProperties
  <2>3. /\ handler' \in [1..MaxActions -> Handler] /\ browser' \in Browser /\ browser'.page \in Pages
        /\ UNCHANGED <<site, effects, online, session, recording, tests, may>>
    BY <1>5, CommitIs
  <2> QED
    BY <1>0, <2>1, <2>2, <2>3 DEF CaptureTypes, CaptureTypeOK
<1>6. CASE NotLoaded
  <2>1. \A h \in 1..MaxActions : CanDo(handler'[h])
    BY <1>0, <1>6, NotLoadedIs DEF CanDo
  <2>2. /\ handler' \in [1..MaxActions -> Handler] /\ browser' \in Browser /\ browser'.page \in Pages
        /\ UNCHANGED <<site, effects, online, wire, session, recording, tests, may>>
    BY <1>0, <1>6, NotLoadedIs
  <2> QED
    BY <1>0, <2>1, <2>2 DEF CaptureTypes, CaptureTypeOK
<1>7. CASE Drop \/ Rejoin
  <2>0. wire' = <<>> \/ wire' = wire
    BY <1>7 DEF Drop, Rejoin
  <2>1. /\ online' \in BOOLEAN /\ wire' \in Seq(Kept)
        /\ UNCHANGED <<site, browser, effects, handler, session, recording, tests, may>>
    BY <1>0, <1>7, <2>0, EmptySeq, CaptureTypesAre DEF Drop, Rejoin, browserVars
  <2> QED
    BY <1>0, <2>1 DEF CaptureTypes, CaptureTypeOK
<1>8. CASE Deliver
  <2>1. /\ wire' \in Seq(Kept)
        /\ session' \in [st : {"active", "stopping", "over"}, target : Pages, steps : Seq(Kept)]
        /\ UNCHANGED <<site, browser, effects, handler, online, recording, tests, may>>
    BY <1>8, DeliverIs
  <2> QED
    BY <1>0, <2>1 DEF CaptureTypes, CaptureTypeOK
<1>9. CASE Flush
  <2>1. recording' \in Seq(Kept) /\ UNCHANGED <<site, browser, effects, handler, online, wire, session, tests, may>>
    BY <1>9, CaptureTypesAre DEF Flush, browserVars
  <2> QED
    BY <1>0, <2>1 DEF CaptureTypes, CaptureTypeOK
<1>10. CASE Stop
  <2>1. /\ recording' = session.steps /\ session' = [session EXCEPT !.st = "stopping"]
        /\ UNCHANGED <<site, browser, effects, handler, online, wire, tests, may>>
    BY <1>10 DEF Stop, browserVars
  <2>2. session' \in [st : {"active", "stopping", "over"}, target : Pages, steps : Seq(Kept)]
    BY <2>1, ReSession
  <2>3. recording' \in Seq(Kept)
    BY <2>1, CaptureTypesAre
  <2> QED
    BY <1>0, <2>1, <2>2, <2>3 DEF CaptureTypes, CaptureTypeOK
<1>11. CASE Stopped
  <2>1. /\ session' = [session EXCEPT !.st = "over"]
        /\ UNCHANGED <<site, browser, effects, handler, online, wire, recording, tests, may>>
    BY <1>11 DEF Stopped, browserVars
  <2>2. session' \in [st : {"active", "stopping", "over"}, target : Pages, steps : Seq(Kept)]
    BY <2>1, ReSession
  <2> QED
    BY <1>0, <2>1, <2>2 DEF CaptureTypes, CaptureTypeOK
<1>12. CASE Convert
  <2>1. /\ tests' \in Seq(Seq(Kept)) /\ Len(tests') <= MaxTests
        /\ UNCHANGED <<site, browser, effects, handler, online, wire, session, recording, may>>
    BY <1>12, ConvertIs
  <2> QED
    BY <1>0, <2>1 DEF CaptureTypes, CaptureTypeOK
<1> QED
  BY <1>1, <1>2, <1>3, <1>4, <1>5, <1>6, <1>7, <1>8, <1>9, <1>10, <1>11, <1>12
     DEF CaptureNext, Handlers

(***************************************************************************)
(* The shape of the state                                                  *)
(***************************************************************************)

Verdicts == {"PASSED", "FAILED", "SKIPPED"}
Stages   == {"waiting", "setup", "steps", "failed", "finally", "insert", "update", "done",
             "escaped"}

\* A runner has the fields of Runner. What its browser does is not looked at here.
IsRunner(r) ==
  r \in [at : Stages, i : {r.i}, browser : {r.browser}, did : {r.did},
         status : {"COMPLETED", "FAILED"}, effects : {r.effects}]

ShapeInv ==
  /\ box \in {"none", "up", "exited"}
  /\ box # "none" => width \in Nat \ {0}
  /\ next \in Nat \ {0}
  /\ \E S : tests \in Seq(S)
  /\ Len(tests) <= MaxTests
  /\ runner = [t \in All |-> runner[t]] /\ \A t \in All : IsRunner(runner[t])
  /\ result \in [All -> {"RUNNING", "COMPLETED", "FAILED"}]
  /\ rows = [t \in All |-> rows[t]]

\* A step of the runner of t, which leaves the others as they are.
Moves(t, r) == runner' = [runner EXCEPT ![t] = r]

LEMMA MovesOne ==
  ASSUME ShapeInv, NEW t \in All, NEW r, Moves(t, r)
  PROVE  /\ runner'[t] = r
         /\ \A u \in All : u # t => runner'[u] = runner[u]
         /\ runner' = [u \in All |-> runner'[u]]
BY DEF ShapeInv, Moves

LEMMA TestsAre ==
  ASSUME ShapeInv
  PROVE  Len(tests) \in Nat /\ Ran \subseteq All
BY CaptureAssumption DEF ShapeInv, Ran, All

\* What a step of runTest() does to its runner, and to nothing else.
Steps(t, r) ==
  /\ Moves(t, r) /\ IsRunner(r)
  /\ r.at # "waiting" /\ runner[t].at \notin {"waiting", "done", "escaped"}
  /\ r.at = "done" => result'[t] # "RUNNING"
  /\ r.at = "escaped" => ~Without({"close", "error", "announce"})
  /\ UNCHANGED <<captureVars, boxVars>>
  /\ result' \in [All -> {"RUNNING", "COMPLETED", "FAILED"}]
  /\ rows' = [u \in All |-> rows'[u]]
  /\ \A u \in All : u # t => result'[u] = result[u] /\ rows'[u] = rows[u]

LEMMA RunnerMoves ==
  ASSUME ShapeInv, NEW t \in All, RunTest(t)
  PROVE  \E r : Steps(t, r)
<1> DEFINE q == runner[t]
<1>0. /\ IsRunner(q)
      /\ result \in [All -> {"RUNNING", "COMPLETED", "FAILED"}] /\ rows = [u \in All |-> rows[u]]
      /\ runner = [u \in All |-> runner[u]]
  BY DEF ShapeInv
<1>9. q \in [at : Stages, i : {q.i}, browser : {q.browser}, did : {q.did},
             status : {"COMPLETED", "FAILED"}, effects : {q.effects}]
  BY <1>0 DEF IsRunner
<1>1. \A l \in Stages : IsRunner([q EXCEPT !.at = l]) /\ [q EXCEPT !.at = l].at = l
  BY <1>9 DEF IsRunner
<1> HIDE DEF q
<1>10. ASSUME NEW r, IsRunner(r), r.at \notin {"waiting", "done"}, Goes(t, r),
              q.at \notin {"waiting", "done", "escaped"},
              r.at = "escaped" => ~Without({"close", "error", "announce"})
       PROVE  Steps(t, r)
  BY <1>0, <1>10 DEF Goes, resultVars, Moves, Steps, q
<1>2. CASE Setup(t)
  <2> DEFINE r == [q EXCEPT !.at = "steps", !.i = 1]
  <2>3. IsRunner(r) /\ r.at = "steps"
    BY <1>9 DEF IsRunner, Stages
  <2>2. /\ q.at = "setup"
        /\ \/ Goes(t, r) \/ Goes(t, [q EXCEPT !.at = "failed"])
           \/ "announce" \in may /\ Goes(t, [q EXCEPT !.at = "escaped"])
    BY <1>2 DEF Setup, q
  <2> HIDE DEF r
  <2> QED
    BY <1>1, <1>10, <2>2, <2>3 DEF Stages, Without
<1>3. CASE RunStep(t)
  <2> DEFINE step == tests[t][q.i]
  <2>1. IsRunner(AfterStep(q, step)) /\ AfterStep(q, step).at = q.at
    BY <1>9 DEF IsRunner, AfterStep
  <2>2. q.at = "steps"
    BY <1>3 DEF RunStep, q
  <2>3. \/ Goes(t, AfterStep(q, step)) \/ Goes(t, [q EXCEPT !.at = "failed"])
    BY <1>3 DEF RunStep, q
  <2> HIDE DEF step
  <2> QED
    BY <1>1, <1>10, <2>1, <2>2, <2>3 DEF Stages
<1>4. CASE Pass(t)
  BY <1>1, <1>4, <1>10 DEF Pass, Stages, q
<1>5. CASE Fail(t)
  <2> DEFINE r == [q EXCEPT !.at = "finally", !.status = "FAILED",
                     !.did = @ \o (IF q.i > 0 THEN <<"FAILED">> ELSE <<>>) \o Skipped(t)]
  <2>1. IsRunner(r) /\ r.at = "finally"
    BY <1>9 DEF IsRunner, Stages
  <2>2. q.at = "failed" /\ Goes(t, r)
    BY <1>5 DEF Fail, q
  <2> HIDE DEF r
  <2> QED
    BY <1>10, <2>1, <2>2
<1>6. CASE Finally(t)
  <2>1. /\ q.at = "finally"
        /\ \/ Goes(t, [q EXCEPT !.at = "insert"])
           \/ "close" \in may /\ Goes(t, [q EXCEPT !.at = "escaped"])
    BY <1>6 DEF Finally, q
  <2> QED
    BY <1>1, <1>10, <2>1 DEF Stages, Without
<1>7. CASE Insert(t)
  <2>1. runner' = [runner EXCEPT ![t] = [q EXCEPT !.at = "update"]]
    BY <1>7 DEF Insert, q
  <2>2. rows' = rows \/ rows' = [rows EXCEPT ![t] = q.did]
    BY <1>7 DEF Insert, q
  <2>3. /\ rows' = [u \in All |-> rows'[u]] /\ \A u \in All : u # t => rows'[u] = rows[u]
        /\ q.at = "insert" /\ UNCHANGED <<captureVars, boxVars, result>>
    BY <1>0, <1>7, <2>2 DEF Insert, q
  <2> QED
    BY <1>0, <1>1, <2>1, <2>3 DEF Moves, Stages, Steps, q
<1>8. CASE Update(t)
  <2>1. q.at = "update" /\ UNCHANGED <<captureVars, boxVars, rows>>
    BY <1>8 DEF Update, q
  <2>2. CASE result' = [result EXCEPT ![t] = q.status] /\ runner' = [runner EXCEPT ![t].at = "done"]
    <3>1. runner' = [runner EXCEPT ![t] = [q EXCEPT !.at = "done"]]
      BY <2>2 DEF q
    <3>2. /\ result' \in [All -> {"RUNNING", "COMPLETED", "FAILED"}]
          /\ result'[t] # "RUNNING"
          /\ \A u \in All : u # t => result'[u] = result[u]
      BY <1>0, <1>9, <2>2
    <3> QED
      BY <1>0, <1>1, <2>1, <3>1, <3>2 DEF Moves, Stages, Steps, q
  <2>3. CASE "error" \in may /\ runner' = [runner EXCEPT ![t].at = "escaped"] /\ UNCHANGED result
    <3>1. runner' = [runner EXCEPT ![t] = [q EXCEPT !.at = "escaped"]]
      BY <2>3 DEF q
    <3> QED
      BY <1>0, <1>1, <2>1, <2>3, <3>1 DEF Moves, Stages, Without, Steps, q
  <2> QED
    BY <1>8, <2>2, <2>3 DEF Update, q
<1> QED
  BY <1>2, <1>3, <1>4, <1>5, <1>6, <1>7, <1>8 DEF RunTest

(***************************************************************************)
(* Batches                                                                 *)
(***************************************************************************)

\* Every test before `next` was begun, and the container exits when all are over.
BatchInv ==
  /\ box = "none" => next = 1 /\ \A t \in All : runner[t] = NewRunner /\ result[t] = "RUNNING"
  /\ "edited" \notin may => edited = {}
  /\ \A t \in All :
       /\ runner[t].at # "waiting" => t \in Ran /\ t < next
       /\ runner[t].at = "done" => result[t] # "RUNNING"
       /\ runner[t].at = "escaped" => ~Without({"close", "error", "announce"})
  /\ box # "none" => \A t \in Ran : t < next => runner[t].at # "waiting"
  /\ box = "exited" => \A t \in Ran : Over(t)

LEMMA InitBatches == Init => ShapeInv /\ BatchInv
<1> SUFFICES ASSUME Init PROVE ShapeInv /\ BatchInv
  OBVIOUS
<1>1. IsRunner(NewRunner) /\ NewRunner.at = "waiting"
  BY DEF NewRunner, IsRunner, Stages
<1>2. tests \in Seq({}) /\ Len(tests) = 0
  BY DEF Init, CaptureInit
<1> HIDE DEF NewRunner
<1>3. ShapeInv
  BY <1>1, <1>2, CaptureAssumption DEF Init, ShapeInv
<1> QED
  BY <1>1, <1>3 DEF Init, BatchInv

\* The recording, before the container starts.
LEMMA CaptureBatches ==
  ASSUME ShapeInv, BatchInv, box = "none", CaptureNext, UNCHANGED replayVars
  PROVE  ShapeInv' /\ BatchInv'
<1>1. UNCHANGED <<box, width, next, edited, runner, result, rows, may>>
  BY DEF replayVars, boxVars, resultVars, CaptureNext, Use, Perform, Handlers, Resolve, Act,
         Capture, Commit, NotLoaded, Drop, Rejoin, Deliver, Flush, Stop, Stopped, Convert
<1>2. (\E S : tests' \in Seq(S)) /\ Len(tests') <= MaxTests
  <2>1. CASE Convert
    <3>1. PICK S : tests \in Seq(S)
      BY DEF ShapeInv
    <3>2. PICK x : tests' = Append(tests, x)
      BY <2>1 DEF Convert
    <3>3. tests' \in Seq(S \cup {x}) /\ Len(tests') = Len(tests) + 1 /\ Len(tests) \in Nat
      BY <3>1, <3>2
    <3>4. Len(tests) < MaxTests \/ Len(tests) < 1
      BY <2>1 DEF Convert
    <3> QED
      BY <3>3, <3>4, CaptureAssumption
  <2>2. CASE ~Convert
    <3>1. UNCHANGED tests
      BY <2>2 DEF CaptureNext, Use, Perform, Handlers, Resolve, Act, Capture, Commit, NotLoaded,
                  Drop, browserVars, Rejoin, Deliver, Flush, Stop, Stopped
    <3> QED
      BY <3>1 DEF ShapeInv
  <2> QED
    BY <2>1, <2>2
<1>3. ShapeInv'
  BY <1>1, <1>2 DEF ShapeInv
<1>4. NewRunner.at = "waiting"
  BY DEF NewRunner
<1> QED
  BY <1>1, <1>3, <1>4 DEF BatchInv

\* The container and its batches.
LEMMA BoxBatches ==
  ASSUME ShapeInv, BatchInv, Move \/ Start \/ StartBatch \/ Exit \/ EditTest
  PROVE  ShapeInv' /\ BatchInv'
<1>0. UNCHANGED <<captureVars, resultVars>> /\ UNCHANGED <<tests, may, result, rows>>
  BY DEF Move, Start, StartBatch, Exit, EditTest, captureVars, resultVars
<1>1. CASE Move
  BY <1>0, <1>1 DEF Move, ShapeInv, BatchInv, Ran, Over, Without
<1>2. CASE Start
  <2>1. width' \in Nat \ {0}
    BY <1>2, ReplayAssumption DEF Start
  <2>2. box = "none" /\ box' = "up" /\ UNCHANGED <<next, edited, runner>>
    BY <1>2 DEF Start
  <2>3. NewRunner.at = "waiting" /\ next = 1 /\ \A t \in Ran : ~(t < 1)
    BY <2>2 DEF NewRunner, BatchInv, Ran
  <2> QED
    BY <1>0, <2>1, <2>2, <2>3 DEF ShapeInv, BatchInv, Ran, Over, Without
<1>3. CASE StartBatch
  <2>0. /\ UNCHANGED <<box, width, edited>> /\ box = "up" /\ next' = next + width
        /\ width \in Nat \ {0} /\ next \in Nat \ {0} /\ next' \in Nat \ {0}
        /\ Ran \subseteq All /\ Ran \subseteq Nat
    BY <1>3, TestsAre DEF StartBatch, ShapeInv, Ran
  <2>1. \A t \in All : runner'[t] = IF t \in Batch THEN [runner[t] EXCEPT !.at = "setup"] ELSE runner[t]
    BY <1>3 DEF StartBatch
  <2>2. \A t \in All : IsRunner(runner[t])
                       => /\ IsRunner([runner[t] EXCEPT !.at = "setup"])
                          /\ [runner[t] EXCEPT !.at = "setup"].at = "setup"
    BY DEF IsRunner, Stages
  <2>3. \A t \in All : /\ IsRunner(runner'[t])
                       /\ runner'[t].at = IF t \in Batch THEN "setup" ELSE runner[t].at
    BY <2>1, <2>2 DEF ShapeInv
  <2>4. runner' = [t \in All |-> runner'[t]]
    BY <1>3 DEF StartBatch
  <2>5. ShapeInv'
    BY <1>0, <2>0, <2>3, <2>4 DEF ShapeInv, All
  <2>6. \A t \in Ran : (t < next' <=> t < next \/ t \in Batch) /\ (t < next => t < next')
    BY <2>0 DEF Batch
  <2>7. Batch \subseteq Ran /\ \A t \in Batch : t < next'
    BY <2>0 DEF Batch
  <2> HIDE DEF Batch
  <2>8. Ran' = Ran /\ All' = All
    BY <1>0 DEF Ran, All
  <2> QED
    BY <1>0, <2>0, <2>3, <2>5, <2>6, <2>7, <2>8 DEF BatchInv, Over, Without
<1>4. CASE Exit
  <2>1. /\ box = "up" /\ box' = "exited" /\ UNCHANGED <<next, width, edited, runner>>
        /\ next \in Nat \ {0} /\ Len(tests) \in Nat
    BY <1>4, TestsAre DEF Exit, ShapeInv
  <2>2. \A t \in Ran : t < next
    BY <1>4, <2>1 DEF Exit, Ran
  <2>3. \A t \in Ran : Over(t)
    BY <1>4, <2>1, <2>2 DEF Exit, BatchInv
  <2> QED
    BY <1>0, <2>1, <2>3 DEF ShapeInv, BatchInv, Ran, Over, Without
<1>5. CASE EditTest
  BY <1>0, <1>5 DEF EditTest, ShapeInv, BatchInv, Ran, Over, Without
<1> QED
  BY <1>1, <1>2, <1>3, <1>4, <1>5

LEMMA RunTestBatches ==
  ASSUME ShapeInv, BatchInv, NEW t \in All, RunTest(t)
  PROVE  ShapeInv' /\ BatchInv'
<1>1. PICK r : Steps(t, r)
  BY RunnerMoves
<1>2. UNCHANGED <<box, width, next, edited, tests, may>>
  BY <1>1 DEF Steps, captureVars, boxVars
<1>3. /\ runner'[t] = r /\ \A u \in All : u # t => runner'[u] = runner[u]
      /\ runner' = [u \in All |-> runner'[u]]
  BY <1>1, MovesOne DEF Steps
<1>4. ShapeInv'
  BY <1>1, <1>2, <1>3 DEF Steps, ShapeInv, All
<1>5. box = "up" /\ t \in Ran /\ t < next
  <2>1. t \in Ran /\ t < next /\ runner[t].at # "waiting" /\ ~Over(t)
    BY <1>1 DEF Steps, BatchInv, Over
  <2>2. box # "none"
    <3>1. NewRunner.at = "waiting"
      BY DEF NewRunner
    <3> QED
      BY <2>1, <3>1 DEF BatchInv
  <2> QED
    BY <2>1, <2>2 DEF ShapeInv, BatchInv
<1>6. Ran' = Ran /\ All' = All /\ (Without({"close", "error", "announce"}))' = Without({"close", "error", "announce"})
  BY <1>2 DEF Ran, All, Without
<1> QED
  <2>1. /\ r.at # "waiting" /\ runner[t].at # "waiting"
        /\ r.at = "done" => result'[t] # "RUNNING"
        /\ r.at = "escaped" => ~Without({"close", "error", "announce"})
        /\ \A u \in All : u # t => result'[u] = result[u]
    BY <1>1 DEF Steps
  <2>2. \A u \in All :
          /\ runner'[u].at # "waiting" => u \in Ran /\ u < next
          /\ runner'[u].at = "done" => result'[u] # "RUNNING"
          /\ runner'[u].at = "escaped" => ~Without({"close", "error", "announce"})
    BY <1>3, <1>5, <2>1 DEF BatchInv
  <2>3. \A u \in Ran : u < next => runner'[u].at # "waiting"
    BY <1>3, <1>5, <2>1, TestsAre DEF BatchInv
  <2>4. box' = "up" /\ ("edited" \notin may' => edited' = {})
    BY <1>2, <1>5 DEF BatchInv
  <2> QED
    BY <1>2, <1>4, <1>6, <2>2, <2>3, <2>4 DEF BatchInv

LEMMA NextBatches == ShapeInv /\ BatchInv /\ [Next]_vars => ShapeInv' /\ BatchInv'
<1> SUFFICES ASSUME ShapeInv, BatchInv, [Next]_vars PROVE ShapeInv' /\ BatchInv'
  OBVIOUS
<1>1. CASE UNCHANGED vars
  BY <1>1 DEF vars, captureVars, replayVars, boxVars, resultVars, ShapeInv, BatchInv, Ran, Over,
              Without
<1>2. CASE Next
  BY <1>2, CaptureBatches, BoxBatches, RunTestBatches DEF Next
<1> QED
  BY <1>1, <1>2

\* An exit of the container means that every test was judged: whatever the width of a batch,
\* none is left out between two batches, and a runTest() that rejects is the only way to end
\* without a verdict.
THEOREM ExitJudgesAll == Spec => []ExitMeansJudged
<1>1. ShapeInv /\ BatchInv => ExitMeansJudged
  BY TestsAre DEF BatchInv, ExitMeansJudged, Over
<1> QED
  BY <1>1, InitBatches, NextBatches, PTL DEF Spec

(***************************************************************************)
(* Steps                                                                   *)
(***************************************************************************)

\* Every conversion leaves a test with steps.
Lengths == \A t \in Ran : Len(tests[t]) \in Nat \ {0}

Passed(did, k) == did \in Seq(Verdicts) /\ Len(did) = k /\ \A j \in 1..k : did[j] = "PASSED"

\* Those before k have passed, k has failed and the others were skipped; with k = 0 all were.
FailedAt(did, k, n) ==
  /\ did \in Seq(Verdicts) /\ Len(did) = n
  /\ \A j \in 1..n : did[j] = IF j < k THEN "PASSED" ELSE IF j = k THEN "FAILED" ELSE "SKIPPED"

Whole(did, n, status) ==
  /\ status = "COMPLETED" => Passed(did, n)
  /\ status = "FAILED" => \E k \in 0..n : FailedAt(did, k, n)

\* How far the results of a runner are, of n steps.
Reached(r, n) ==
  /\ r.at \in {"waiting", "setup"} => r.i = 0 /\ r.did = <<>> /\ r.status = "COMPLETED"
  /\ r.at = "steps" => r.i \in 1..(n + 1) /\ Passed(r.did, r.i - 1) /\ r.status = "COMPLETED"
  /\ r.at = "failed" => \/ r.i = 0 /\ r.did = <<>>
                        \/ r.i \in 1..n /\ Passed(r.did, r.i - 1)
  /\ r.at \in {"finally", "insert", "update", "done"} => Whole(r.did, n, r.status)

\* What is written of t is what its runner has.
Written(t) ==
  /\ Without({"edited", "error"}) /\ runner[t].at \in {"update", "done"} => rows[t] = runner[t].did
  /\ result[t] # "RUNNING" => runner[t].at = "done" /\ result[t] = runner[t].status

Track(t) == Reached(runner[t], Len(tests[t])) /\ Written(t)
TrackInv == \A t \in Ran : Track(t)

LEMMA PassedMore ==
  ASSUME NEW k \in Nat, NEW did, Passed(did, k)
  PROVE  Passed(Append(did, "PASSED"), k + 1)
<1>1. did \in Seq(Verdicts) /\ Len(did) = k /\ "PASSED" \in Verdicts
  BY DEF Passed, Verdicts
<1>2. /\ Append(did, "PASSED") \in Seq(Verdicts) /\ Len(Append(did, "PASSED")) = k + 1
      /\ Append(did, "PASSED")[k + 1] = "PASSED"
      /\ \A j \in 1..k : Append(did, "PASSED")[j] = did[j]
  BY <1>1
<1> QED
  BY <1>2 DEF Passed

\* The catch counts every step once.
LEMMA FailedWhole ==
  ASSUME NEW n \in Nat \ {0}, NEW i \in 0..n, NEW did,
         i = 0 => did = <<>>, i # 0 => Passed(did, i - 1)
  PROVE  FailedAt(did \o (IF i > 0 THEN <<"FAILED">> ELSE <<>>) \o [j \in 1..(n - i) |-> "SKIPPED"],
                  i, n)
<1> DEFINE one  == IF i > 0 THEN <<"FAILED">> ELSE <<>>
           rest == [j \in 1..(n - i) |-> "SKIPPED"]
<1>1. /\ rest \in Seq(Verdicts) /\ Len(rest) = n - i
      /\ \A j \in 1..(n - i) : rest[j] = "SKIPPED"
  <2>1. n - i \in Nat /\ "SKIPPED" \in Verdicts
    BY DEF Verdicts
  <2> QED
    BY <2>1
<1>2. CASE i = 0
  <2>1. did \o one = <<>>
    BY <1>2
  <2>2. (did \o one) \o rest = rest
    BY <1>1, <2>1
  <2> HIDE DEF rest, one
  <2>3. FailedAt(rest, i, n)
    BY <1>1, <1>2 DEF FailedAt
  <2> QED
    BY <2>2, <2>3 DEF rest, one
<1>3. CASE i # 0
  <2>1. /\ did \in Seq(Verdicts) /\ Len(did) = i - 1 /\ i \in 1..n
        /\ \A j \in 1..(i - 1) : did[j] = "PASSED"
    BY <1>3 DEF Passed
  <2>2. one \in Seq(Verdicts) /\ Len(one) = 1 /\ one[1] = "FAILED"
    <3>1. one = <<"FAILED">> /\ "FAILED" \in Verdicts
      BY <2>1 DEF Verdicts
    <3> HIDE DEF one
    <3> QED
      BY <3>1
  <2> HIDE DEF rest, one
  <2>3. /\ did \o one \in Seq(Verdicts) /\ Len(did \o one) = i
        /\ \A j \in 1..i : (did \o one)[j] = IF j < i THEN "PASSED" ELSE "FAILED"
    <3>1. /\ did \o one \in Seq(Verdicts) /\ Len(did \o one) = (i - 1) + 1
          /\ \A j \in 1..((i - 1) + 1) :
               (did \o one)[j] = IF j <= i - 1 THEN did[j] ELSE one[j - (i - 1)]
      <4>1. /\ did \o one \in Seq(Verdicts) /\ Len(did \o one) = Len(did) + Len(one)
            /\ \A j \in 1..(Len(did) + Len(one)) :
                 (did \o one)[j] = IF j <= Len(did) THEN did[j] ELSE one[j - Len(did)]
        <5>1. did \in Seq(Verdicts) /\ one \in Seq(Verdicts)
          BY <2>1, <2>2
        <5> QED
          BY <5>1, ConcatProperties
      <4> QED
        BY <2>1, <2>2, <4>1
    <3>2. \A j \in 1..i : IF j < i THEN j \in 1..(i - 1) ELSE j - (i - 1) = 1
      BY <2>1
    <3> QED
      BY <2>1, <2>2, <3>1, <3>2
  <2> DEFINE before == did \o one
  <2>4. /\ before \in Seq(Verdicts) /\ Len(before) = i
        /\ \A j \in 1..i : before[j] = IF j < i THEN "PASSED" ELSE "FAILED"
    BY <2>3
  <2> HIDE DEF before
  <2>5. /\ before \o rest \in Seq(Verdicts) /\ Len(before \o rest) = n
        /\ \A j \in 1..n : (before \o rest)[j] = IF j <= i THEN before[j] ELSE rest[j - i]
    <3>1. i + (n - i) = n
      BY <2>1
    <3> QED
      BY <1>1, <2>4, <3>1, ConcatProperties
  <2>6. \A j \in 1..n : ~(j <= i) => j - i \in 1..(n - i)
    BY <2>1
  <2>7. FailedAt(before \o rest, i, n)
    BY <1>1, <2>1, <2>4, <2>5, <2>6 DEF FailedAt
  <2> QED
    BY <2>7 DEF before, rest, one
<1> QED
  BY <1>2, <1>3

LEMMA InitTrack == Init => TrackInv
<1> SUFFICES ASSUME Init PROVE \A t \in Ran : FALSE
  BY DEF TrackInv
<1> QED
  BY DEF Init, CaptureInit, Ran

\* While no container was started nothing is tracked yet.
LEMMA TrackNew ==
  ASSUME NEW t \in All, runner[t] = NewRunner, result[t] = "RUNNING"
  PROVE  Track(t)
BY DEF Track, Reached, Written, NewRunner

\* What a runner does to its own results.
LEMMA ReachedOn ==
  ASSUME ShapeInv, BatchInv, NEW t \in Ran, Lengths, Track(t), RunTest(t)
  PROVE  Reached(runner'[t], Len(tests[t])) /\ Written(t)'
<1> DEFINE q == runner[t]
           n == Len(tests[t])
<1>0. /\ IsRunner(q) /\ n \in Nat \ {0} /\ Reached(q, n) /\ Written(t) /\ t \in All
      /\ runner = [u \in All |-> runner[u]] /\ rows = [u \in All |-> rows[u]]
      /\ result \in [All -> {"RUNNING", "COMPLETED", "FAILED"}]
  BY TestsAre DEF ShapeInv, Track, Lengths
<1>9. q \in [at : Stages, i : {q.i}, browser : {q.browser}, did : {q.did},
             status : {"COMPLETED", "FAILED"}, effects : {q.effects}]
  BY <1>0 DEF IsRunner
<1> SUFFICES Reached(runner'[t], n) /\ Written(t)'
  OBVIOUS
<1> HIDE DEF q, n
<1>10. ASSUME NEW r, Goes(t, r), Reached(r, n), r.at \notin {"update", "done"},
              q.at # "done"
       PROVE  Reached(runner'[t], n) /\ Written(t)'
  <2>1. runner'[t] = r /\ UNCHANGED <<result, rows, may>>
    BY <1>0, <1>10 DEF Goes, resultVars, captureVars
  <2>2. result[t] = "RUNNING"
    BY <1>0, <1>10 DEF Written, q
  <2> QED
    BY <1>10, <2>1, <2>2 DEF Written
<1>11. \A l \in Stages : LET r == [q EXCEPT !.at = l] IN
         r.at = l /\ r.i = q.i /\ r.did = q.did /\ r.status = q.status
  BY <1>9
<1>1. CASE Setup(t)
  <2> DEFINE r == [q EXCEPT !.at = "steps", !.i = 1]
  <2>1. r.at = "steps" /\ r.i = 1 /\ r.did = q.did /\ r.status = q.status
    BY <1>9
  <2>2. /\ q.at = "setup"
        /\ \/ Goes(t, r) \/ Goes(t, [q EXCEPT !.at = "failed"])
           \/ Goes(t, [q EXCEPT !.at = "escaped"])
    BY <1>1 DEF Setup, q
  <2>3. q.i = 0 /\ q.did = <<>> /\ q.status = "COMPLETED"
    BY <1>0, <2>2 DEF Reached
  <2> HIDE DEF r
  <2>4. Passed(<<>>, 0)
    BY DEF Passed
  <2>5. /\ Reached(r, n) /\ Reached([q EXCEPT !.at = "failed"], n)
        /\ Reached([q EXCEPT !.at = "escaped"], n)
    BY <1>0, <1>11, <2>1, <2>3, <2>4 DEF Reached, Stages
  <2> QED
    BY <1>10, <1>11, <2>1, <2>2, <2>5 DEF Stages
<1>2. CASE RunStep(t)
  <2> DEFINE step == tests[t][q.i]
             r == AfterStep(q, step)
  <2>1. r.at = q.at /\ r.i = q.i + 1 /\ r.did = Append(q.did, "PASSED") /\ r.status = q.status
    BY <1>9 DEF AfterStep
  <2>2. /\ q.at = "steps" /\ q.i <= n
        /\ Goes(t, r) \/ Goes(t, [q EXCEPT !.at = "failed"])
    BY <1>2 DEF RunStep, q, n
  <2> HIDE DEF r
  <2>3. q.i \in 1..(n + 1) /\ Passed(q.did, q.i - 1) /\ q.status = "COMPLETED"
    BY <1>0, <2>2 DEF Reached
  <2>4. q.i \in 1..n /\ q.i - 1 \in Nat /\ r.i \in 1..(n + 1) /\ r.i - 1 = (q.i - 1) + 1
    BY <1>0, <2>1, <2>2, <2>3
  <2>5. Passed(r.did, r.i - 1)
    BY <2>1, <2>3, <2>4, PassedMore
  <2>6. Reached(r, n)
    BY <2>1, <2>2, <2>3, <2>4, <2>5 DEF Reached
  <2>7. Reached([q EXCEPT !.at = "failed"], n)
    BY <1>11, <2>3, <2>4 DEF Reached, Stages
  <2> QED
    BY <1>10, <1>11, <2>1, <2>2, <2>6, <2>7 DEF Stages
<1>3. CASE Pass(t)
  <2>1. q.at = "steps" /\ q.i > n /\ Goes(t, [q EXCEPT !.at = "finally"])
    BY <1>3 DEF Pass, q, n
  <2>2. q.i \in 1..(n + 1) /\ Passed(q.did, q.i - 1) /\ q.status = "COMPLETED"
    BY <1>0, <2>1 DEF Reached
  <2>3. q.i - 1 = n
    BY <1>0, <2>1, <2>2
  <2>4. Reached([q EXCEPT !.at = "finally"], n)
    BY <1>11, <2>2, <2>3 DEF Reached, Whole, Stages
  <2> QED
    BY <1>10, <1>11, <2>1, <2>4 DEF Stages
<1>4. CASE Fail(t)
  <2> DEFINE did == q.did \o (IF q.i > 0 THEN <<"FAILED">> ELSE <<>>) \o Skipped(t)
             r == [q EXCEPT !.at = "finally", !.status = "FAILED",
                     !.did = @ \o (IF q.i > 0 THEN <<"FAILED">> ELSE <<>>) \o Skipped(t)]
  <2>1. r.at = "finally" /\ r.status = "FAILED" /\ r.did = did
    BY <1>9
  <2>2. q.at = "failed" /\ Goes(t, r)
    BY <1>4 DEF Fail, q
  <2>3. Skipped(t) = [j \in 1..(n - q.i) |-> "SKIPPED"]
    BY DEF Skipped, q, n
  <2>4. /\ q.i \in 0..n
        /\ q.i = 0 => q.did = <<>>
        /\ q.i # 0 => Passed(q.did, q.i - 1)
    BY <1>0, <2>2 DEF Reached
  <2>5. FailedAt(did, q.i, n)
    BY <1>0, <2>3, <2>4, FailedWhole
  <2> HIDE DEF did, r
  <2>6. Reached(r, n)
    BY <2>1, <2>4, <2>5 DEF Reached, Whole
  <2> QED
    BY <1>10, <2>1, <2>2, <2>6
<1>5. CASE Finally(t)
  <2>1. /\ q.at = "finally"
        /\ Goes(t, [q EXCEPT !.at = "insert"]) \/ Goes(t, [q EXCEPT !.at = "escaped"])
    BY <1>5 DEF Finally, q
  <2>2. Reached([q EXCEPT !.at = "insert"], n) /\ Reached([q EXCEPT !.at = "escaped"], n)
    BY <1>0, <1>11, <2>1 DEF Reached, Stages
  <2> QED
    BY <1>10, <1>11, <2>1, <2>2 DEF Stages
<1>6. CASE Insert(t)
  <2>1. /\ q.at = "insert" /\ runner' = [runner EXCEPT ![t] = [q EXCEPT !.at = "update"]]
        /\ UNCHANGED <<result, may>>
        /\ \/ rows' = [rows EXCEPT ![t] = q.did]
           \/ (t \in edited \/ "error" \in may) /\ UNCHANGED rows
    BY <1>6 DEF Insert, q, captureVars
  <2>2. runner'[t] = [q EXCEPT !.at = "update"]
    BY <1>0, <2>1
  <2>3. Reached(runner'[t], n)
    BY <1>0, <1>11, <2>1, <2>2 DEF Reached, Stages
  <2>4. result[t] = "RUNNING"
    BY <1>0, <2>1 DEF Written, q
  <2>5. Without({"edited", "error"}) => rows' = [rows EXCEPT ![t] = q.did]
    BY <2>1 DEF Without, BatchInv
  <2>6. runner'[t].at = "update" /\ runner'[t].did = q.did
    BY <1>11, <2>2 DEF Stages
  <2>7. Without({"edited", "error"}) => rows'[t] = q.did
    BY <1>0, <2>5
  <2> QED
    BY <2>1, <2>3, <2>4, <2>6, <2>7 DEF Written, Without
<1>7. CASE Update(t)
  <2>1. q.at = "update" /\ UNCHANGED <<rows, may>>
    BY <1>7 DEF Update, q, captureVars
  <2>2. \/ /\ result' = [result EXCEPT ![t] = q.status]
           /\ runner' = [runner EXCEPT ![t] = [q EXCEPT !.at = "done"]]
        \/ UNCHANGED result /\ runner' = [runner EXCEPT ![t] = [q EXCEPT !.at = "escaped"]]
    BY <1>7 DEF Update, q
  <2>3. result[t] = "RUNNING"
    BY <1>0, <2>1 DEF Written, q
  <2>4. Without({"edited", "error"}) => rows[t] = q.did
    BY <1>0, <2>1 DEF Written, q
  <2>5. CASE result' = [result EXCEPT ![t] = q.status] /\ runner' = [runner EXCEPT ![t] = [q EXCEPT !.at = "done"]]
    <3>1. runner'[t] = [q EXCEPT !.at = "done"] /\ result'[t] = q.status
      BY <1>0, <2>5
    <3>2. Reached(runner'[t], n)
      BY <1>0, <1>11, <2>1, <3>1 DEF Reached, Stages
    <3> QED
      BY <1>11, <2>1, <2>4, <3>1, <3>2 DEF Written, Stages, Without
  <2>6. CASE UNCHANGED result /\ runner' = [runner EXCEPT ![t] = [q EXCEPT !.at = "escaped"]]
    <3>1. runner'[t] = [q EXCEPT !.at = "escaped"]
      BY <1>0, <2>6
    <3>2. Reached(runner'[t], n)
      BY <1>0, <1>11, <3>1 DEF Reached, Stages
    <3> QED
      BY <1>11, <2>3, <2>6, <3>1, <3>2 DEF Written, Stages
  <2> QED
    BY <2>2, <2>5, <2>6
<1> QED
  BY <1>1, <1>2, <1>3, <1>4, <1>5, <1>6, <1>7 DEF RunTest

LEMMA NextTrack == ShapeInv /\ BatchInv /\ Lengths /\ TrackInv /\ [Next]_vars => TrackInv'
<1> SUFFICES ASSUME ShapeInv, BatchInv, Lengths, TrackInv, [Next]_vars, NEW t \in Ran'
             PROVE  Track(t)'
  BY DEF TrackInv
<1>1. CASE box = "none" /\ UNCHANGED replayVars
  <2>1. t \in All
    <3>1. ShapeInv'
      BY NextBatches
    <3>2. Len(tests') <= MaxTests
      BY <3>1 DEF ShapeInv
    <3>3. Len(tests') \in Nat
      <4>1. PICK S : tests' \in Seq(S)
        BY <3>1 DEF ShapeInv
      <4> QED
        BY <4>1
    <3> QED
      BY <3>2, <3>3, CaptureAssumption DEF Ran, All
  <2>2. (runner[t] = NewRunner /\ result[t] = "RUNNING")'
    BY <1>1, <2>1 DEF BatchInv, replayVars, resultVars
  <2> QED
    BY <2>2 DEF Track, Reached, Written, NewRunner
<1>2. ASSUME UNCHANGED <<tests, may>>, UNCHANGED <<result, rows>>,
             \/ runner'[t].at = "setup" /\ runner[t].at = "waiting"
             \/ runner'[t].at = runner[t].at,
             runner'[t].i = runner[t].i, runner'[t].did = runner[t].did,
             runner'[t].status = runner[t].status
      PROVE  Track(t)'
  <2>1. t \in Ran
    BY <1>2 DEF Ran
  <2>2. Reached(runner[t], Len(tests[t])) /\ Written(t)
    BY <2>1 DEF TrackInv, Track
  <2>3. Reached(runner'[t], Len(tests[t]))
    BY <1>2, <2>2 DEF Reached
  <2>4. Written(t)'
    BY <1>2, <2>2 DEF Written, Without
  <2> QED
    BY <1>2, <2>3, <2>4 DEF Track
<1>3. CASE UNCHANGED vars \/ Move \/ Start \/ Exit \/ EditTest
  BY <1>2, <1>3 DEF vars, captureVars, replayVars, boxVars, resultVars, Move, Start, Exit, EditTest
<1>4. CASE StartBatch
  <2>1. /\ UNCHANGED <<tests, may, result, rows>> /\ t \in Ran /\ t \in All
    BY <1>4, TestsAre DEF StartBatch, captureVars, resultVars, Ran
  <2>2. IsRunner(runner[t])
    BY <2>1 DEF ShapeInv
  <2>3. CASE t \in Batch
    <3>1. runner'[t] = [runner[t] EXCEPT !.at = "setup"]
      BY <1>4, <2>1, <2>3 DEF StartBatch
    <3>2. /\ runner'[t].at = "setup" /\ runner'[t].i = runner[t].i
          /\ runner'[t].did = runner[t].did /\ runner'[t].status = runner[t].status
      BY <2>2, <3>1 DEF IsRunner
    <3>3. runner[t].at = "waiting"
      <4>1. next <= t /\ next \in Nat /\ t \in Nat
        BY <2>1, <2>3 DEF Batch, ShapeInv, Ran
      <4> QED
        BY <2>1, <4>1 DEF BatchInv
    <3> QED
      BY <1>2, <2>1, <3>2, <3>3
  <2>4. CASE t \notin Batch
    <3>1. runner'[t] = runner[t]
      BY <1>4, <2>1, <2>4 DEF StartBatch
    <3> QED
      BY <1>2, <2>1, <3>1
  <2> QED
    BY <2>3, <2>4
<1>5. ASSUME NEW u \in All, RunTest(u) PROVE Track(t)'
  <2>1. PICK r : Steps(u, r)
    BY <1>5, RunnerMoves
  <2>2. UNCHANGED <<tests, may>> /\ t \in Ran /\ t \in All
    BY <2>1, TestsAre DEF Steps, captureVars, Ran
  <2>3. CASE u = t
    <3>1. Reached(runner'[t], Len(tests[t])) /\ Written(t)'
      BY <1>5, <2>2, <2>3, ReachedOn DEF TrackInv
    <3> QED
      BY <2>2, <3>1 DEF Track
  <2>4. CASE u # t
    <3>1. runner'[t] = runner[t] /\ result'[t] = result[t] /\ rows'[t] = rows[t]
      BY <2>1, <2>2, <2>4, MovesOne DEF Steps
    <3>2. Track(t)
      BY <2>2 DEF TrackInv
    <3> QED
      BY <2>2, <3>1, <3>2 DEF Track, Reached, Written, Without
  <2> QED
    BY <2>3, <2>4
<1> QED
  BY <1>1, <1>3, <1>4, <1>5 DEF Next

\* The numbers of steps with a verdict.
LEMMA CountAll ==
  ASSUME NEW t, NEW n \in Nat, rows[t] \in Seq(Verdicts), Len(rows[t]) = n
  PROVE  Count(t, "PASSED") = n <=> \A j \in 1..n : rows[t][j] = "PASSED"
<1> DEFINE P == {i \in 1..Len(rows[t]) : rows[t][i] = "PASSED"}
<1>1. IsFiniteSet(1..n) /\ Cardinality(1..n) = n
  BY FS_Interval
<1>2. P \subseteq 1..n
  OBVIOUS
<1>3. Cardinality(P) = n <=> P = 1..n
  BY <1>1, <1>2, FS_Subset
<1> QED
  BY <1>3 DEF Count

LEMMA CountOne ==
  ASSUME NEW t, NEW k, \A j \in 1..Len(rows[t]) : rows[t][j] = "FAILED" => j = k
  PROVE  Count(t, "FAILED") <= 1
<1> DEFINE P == {i \in 1..Len(rows[t]) : rows[t][i] = "FAILED"}
<1>1. P \subseteq {k}
  OBVIOUS
<1>2. IsFiniteSet({k}) /\ Cardinality({k}) = 1
  BY FS_Singleton
<1>3. Cardinality(P) <= 1
  BY <1>1, <1>2, FS_Subset
<1> QED
  BY <1>3 DEF Count

Where(r) == [browser |-> r.browser, effects |-> r.effects]

ReplayTypes ==
  /\ box \in {"none", "up", "exited"}
  /\ width \in Parallel \cup {0} /\ away \in BOOLEAN /\ next \in Nat
  /\ runner \in [All -> Runner]
  /\ result \in [All -> {"RUNNING", "COMPLETED", "FAILED"}]
  /\ rows \in [All -> Seq({"PASSED", "FAILED", "SKIPPED"})]
  /\ edited \subseteq All
  /\ \A t \in All : /\ runner[t].browser \in Rested
                    /\ runner[t].at = "steps" => runner[t].i # 0

TypeInv == CaptureTypes /\ ReplayTypes

LEMMA RunnerIs ==
  ASSUME NEW r \in Runner
  PROVE  /\ r.at \in Stages /\ r.i \in Nat /\ r.browser \in Browser
         /\ r.did \in Seq({"PASSED", "FAILED", "SKIPPED"})
         /\ r.status \in {"COMPLETED", "FAILED"} /\ r.effects \in Seq(Effect)
BY DEF Runner, Stages

LEMMA RunnerAt ==
  ASSUME NEW r \in Runner, NEW at \in Stages
  PROVE  LET q == [r EXCEPT !.at = at] IN
           /\ q \in Runner /\ q.at = at /\ q.i = r.i /\ q.browser = r.browser /\ q.did = r.did
           /\ q.status = r.status /\ q.effects = r.effects
BY DEF Runner, Stages

LEMMA RunnerNew ==
  /\ NewRunner \in Runner /\ NewRunner.at = "waiting" /\ NewRunner.i = 0
  /\ NewRunner.browser \in Rested /\ NewRunner.status = "COMPLETED" /\ Where(NewRunner) = Blank
<1> DEFINE none == <<>>
           b == [page |-> None, focus |-> None, to |-> None]
<1>1. b \in Browser /\ b \in Rested
  BY BrowserIs DEF Rested
<1>2. none \in Seq(Effect) /\ none \in Seq({"PASSED", "FAILED", "SKIPPED"})
  BY EmptySeq
<1>3. NewRunner = [at |-> "waiting", i |-> 0, browser |-> b, did |-> none,
                   status |-> "COMPLETED", effects |-> none]
  BY DEF NewRunner
<1>5. Blank = [browser |-> NewRunner.browser, effects |-> none]
  BY DEF Blank
<1> HIDE DEF none, b
<1>4. NewRunner \in Runner
  BY <1>1, <1>2, <1>3 DEF Runner
<1> QED
  BY <1>1, <1>3, <1>4, <1>5 DEF Where

\* A step that passes.
LEMMA AfterStepIs ==
  ASSUME site \in Site, NEW r \in Runner, r.browser \in Rested, NEW step \in Kept,
         Can(Where(r), step)
  PROVE  LET q == AfterStep(r, step) IN
           /\ q \in Runner /\ q.at = r.at /\ q.i = r.i + 1 /\ q.status = r.status
           /\ q.browser \in Rested /\ Where(q) = Does(Where(r), step)
<1> DEFINE b == IF step.type = "navigate" THEN Loaded(r.browser, step.page) ELSE Settle(Acted(r.browser, step))
           e == r.effects \o Effects(r.browser, step)
           d == Append(r.did, "PASSED")
           i == r.i + 1
           q == AfterStep(r, step)
<1>1. /\ r.i \in Nat /\ r.effects \in Seq(Effect)
      /\ r.did \in Seq({"PASSED", "FAILED", "SKIPPED"})
  BY RunnerIs
<1>2. Where(r) \in State /\ Where(r).browser = r.browser /\ Where(r).effects = r.effects
  BY <1>1, StateIs DEF Where
<1>3. Does(Where(r), step) \in State
  BY <1>2, DoesIs
<1>8. Does(Where(r), step) = [browser |-> b, effects |-> e]
  BY <1>2 DEF Does
<1>4. b \in Rested /\ e \in Seq(Effect) /\ b \in Browser
  <2> DEFINE st == Does(Where(r), step)
  <2>1. st \in State /\ st.browser = b /\ st.effects = e
    <3> HIDE DEF b, e
    <3> QED
      BY <1>3, <1>8
  <2> HIDE DEF st, b, e
  <2> QED
    BY <2>1, StateIs
<1>5. i \in Nat /\ d \in Seq({"PASSED", "FAILED", "SKIPPED"})
  BY <1>1
<1>6. q = [r EXCEPT !.browser = b, !.effects = e, !.did = d, !.i = i]
  <2>1. r = [at |-> r.at, i |-> r.i, browser |-> r.browser, did |-> r.did, status |-> r.status,
             effects |-> r.effects]
    BY DEF Runner
  <2> QED
    BY <2>1 DEF AfterStep
<1> HIDE DEF b, e, d, i, q
<1>7. /\ q \in Runner /\ q.at = r.at /\ q.i = i /\ q.status = r.status /\ q.browser = b
      /\ q.effects = e
  BY <1>4, <1>5, <1>6 DEF Runner
<1> QED
  BY <1>4, <1>7, <1>8 DEF Where, q, i

LEMMA PossibleCan ==
  ASSUME NEW r, NEW step, Possible(r.browser, step)
  PROVE  Can(Where(r), step)
BY DEF Possible, Can, Where

LEMMA CanPossible ==
  ASSUME NEW r, NEW step, Can(Where(r), step), step.type = "navigate" => Leads(step)
  PROVE  Possible(r.browser, step)
BY DEF Possible, Can, Where

\* What becomes of a runner q.
Alike(q, r) == Where(r) = Where(q) /\ r.status = q.status
Become(t, q, r) ==
  \/ q.at = "setup" /\ r.at = "steps" /\ r.i = 1 /\ Alike(q, r)
  \/ q.at = "setup" /\ "setup" \in may /\ r.at = "failed"
  \/ /\ q.at = "steps" /\ q.i \in 1..Len(tests[t]) /\ Possible(q.browser, tests[t][q.i])
     /\ r.at = "steps" /\ r.i = q.i + 1 /\ r.status = q.status
     /\ Where(r) = Does(Where(q), tests[t][q.i])
  \/ /\ q.at = "steps" /\ q.i \in 1..Len(tests[t]) /\ r.at = "failed"
     /\ ~Possible(q.browser, tests[t][q.i]) \/ "flaky" \in may
  \/ q.at = "steps" /\ q.i > Len(tests[t]) /\ r.at = "finally" /\ Alike(q, r)
  \/ q.at = "failed" /\ r.at = "finally"
  \/ q.at = "finally" /\ r.at = "insert" /\ Alike(q, r)
  \/ q.at = "insert" /\ r.at = "update" /\ Alike(q, r)
  \/ q.at = "update" /\ r.at = "done" /\ Alike(q, r)
  \/ r.at = "escaped"

\* r is what the runner of t becomes.
Becomes(t, r) ==
  /\ runner' = [runner EXCEPT ![t] = r] /\ r \in Runner /\ r.browser \in Rested
  /\ r.at = "steps" => r.i # 0
  /\ Become(t, runner[t], r)
  /\ result' = IF r.at = "done" THEN [result EXCEPT ![t] = r.status] ELSE result
  /\ rows' = rows \/ rows' = [rows EXCEPT ![t] = runner[t].did]

LEMMA RunnerGoes ==
  ASSUME TypeInv, NEW t \in Ran, t \in All, RunTest(t)
  PROVE  \E r : Becomes(t, r)
<1> DEFINE q == runner[t]
<1>0. /\ q \in Runner /\ q.browser \in Rested /\ (q.at = "steps" => q.i # 0)
      /\ runner \in [All -> Runner]
      /\ result \in [All -> {"RUNNING", "COMPLETED", "FAILED"}]
      /\ site \in Site
  BY CaptureTypesAre DEF TypeInv, ReplayTypes
<1>1. tests[t] \in Seq(Kept) /\ Len(tests[t]) \in Nat
  <2>1. tests \in Seq(Seq(Kept))
    BY CaptureTypesAre DEF TypeInv
  <2> QED
    BY <2>1, ElementOfSeq DEF Ran
<1>2. q.i \in Nat /\ q.did \in Seq({"PASSED", "FAILED", "SKIPPED"})
  BY <1>0, RunnerIs
<1> HIDE DEF q
<1>3. ASSUME NEW at \in Stages
      PROVE  LET r == [q EXCEPT !.at = at] IN
               /\ r \in Runner /\ r.at = at /\ r.i = q.i /\ r.browser = q.browser
               /\ r.status = q.status /\ Alike(q, r)
  <2> DEFINE r == [q EXCEPT !.at = at]
  <2>1. /\ r \in Runner /\ r.at = at /\ r.i = q.i /\ r.browser = q.browser
        /\ r.status = q.status /\ r.effects = q.effects
    BY <1>0, RunnerAt
  <2> HIDE DEF r
  <2>2. Alike(q, r)
    BY <2>1 DEF Alike, Where
  <2> QED
    BY <2>1, <2>2 DEF r
<1>4. ASSUME NEW r, Goes(t, r), r \in Runner, r.browser \in Rested, r.at = "steps" => r.i # 0,
             Become(t, q, r), r.at # "done"
      PROVE  \E x : Becomes(t, x)
  <2>1. Becomes(t, r)
    BY <1>4 DEF Goes, resultVars, Becomes, q
  <2> QED
    BY <2>1
<1>5. CASE Setup(t)
  <2> DEFINE c == [q EXCEPT !.at = "steps"]
             r == [q EXCEPT !.at = "steps", !.i = 1]
             f == [q EXCEPT !.at = "failed"]
             e == [q EXCEPT !.at = "escaped"]
  <2>1. /\ q.at = "setup"
        /\ Goes(t, r) \/ ("setup" \in may /\ Goes(t, f)) \/ Goes(t, e)
    BY <1>5 DEF Setup, q
  <2>2. /\ c \in Runner /\ c.at = "steps" /\ c.browser = q.browser /\ c.status = q.status
        /\ c.effects = q.effects
    BY <1>0, RunnerAt DEF Stages
  <2>3. r = [c EXCEPT !.i = 1]
    OBVIOUS
  <2> HIDE DEF c, r
  <2>4. /\ r \in Runner /\ r.at = "steps" /\ r.i = 1 /\ r.browser = q.browser /\ r.status = q.status
        /\ r.effects = q.effects
    BY <2>2, <2>3 DEF Runner
  <2>5. Alike(q, r)
    BY <2>4 DEF Alike, Where
  <2>6. /\ f \in Runner /\ f.at = "failed" /\ f.browser = q.browser
        /\ e \in Runner /\ e.at = "escaped" /\ e.browser = q.browser
    BY <1>3 DEF Stages
  <2> HIDE DEF e, f
  <2>7. Become(t, q, r) /\ Become(t, q, e)
    BY <2>1, <2>4, <2>5, <2>6 DEF Become
  <2>8. "setup" \in may => Become(t, q, f)
    BY <2>1, <2>6 DEF Become
  <2> QED
    BY <1>0, <1>4, <2>1, <2>4, <2>6, <2>7, <2>8
<1>6. CASE RunStep(t)
  <2> DEFINE step == tests[t][q.i]
             r == AfterStep(q, step)
             f == [q EXCEPT !.at = "failed"]
  <2>1. /\ q.at = "steps" /\ q.i <= Len(tests[t])
        /\ \/ Possible(q.browser, step) /\ Goes(t, r)
           \/ (~Possible(q.browser, step) \/ "flaky" \in may) /\ Goes(t, f)
    BY <1>6 DEF RunStep, q
  <2>2. q.i \in 1..Len(tests[t])
    BY <1>0, <1>1, <1>2, <2>1
  <2>3. step \in Kept
    BY <1>1, <2>2, ElementOfSeq
  <2>4. f \in Runner /\ f.at = "failed" /\ f.browser = q.browser
    BY <1>3 DEF Stages
  <2> HIDE DEF f, r
  <2>5. CASE Possible(q.browser, step) /\ Goes(t, r)
    <3>1. Can(Where(q), step)
      BY <2>5, PossibleCan
    <3>2. /\ r \in Runner /\ r.at = q.at /\ r.i = q.i + 1 /\ r.status = q.status
          /\ r.browser \in Rested /\ Where(r) = Does(Where(q), step)
      <4> HIDE DEF step
      <4> QED
        BY <1>0, <2>3, <3>1, AfterStepIs DEF r
    <3>3. Become(t, q, r)
      BY <2>1, <2>2, <2>5, <3>2 DEF Become
    <3>4. r.i # 0
      BY <1>2, <3>2
    <3> QED
      BY <1>4, <2>1, <2>5, <3>2, <3>3, <3>4
  <2>6. CASE (~Possible(q.browser, step) \/ "flaky" \in may) /\ Goes(t, f)
    <3>1. Become(t, q, f)
      BY <2>1, <2>2, <2>4, <2>6 DEF Become
    <3> QED
      BY <1>0, <1>4, <2>4, <2>6, <3>1
  <2> QED
    BY <2>1, <2>5, <2>6
<1>7. CASE Pass(t)
  <2> DEFINE f == [q EXCEPT !.at = "finally"]
  <2>1. q.at = "steps" /\ q.i > Len(tests[t]) /\ Goes(t, f)
    BY <1>7 DEF Pass, q
  <2>2. f \in Runner /\ f.at = "finally" /\ f.browser = q.browser /\ Alike(q, f)
    BY <1>3 DEF Stages
  <2> HIDE DEF f
  <2>3. Become(t, q, f)
    BY <2>1, <2>2 DEF Become
  <2> QED
    BY <1>0, <1>4, <2>1, <2>2, <2>3
<1>8. CASE Fail(t)
  <2> DEFINE c == [q EXCEPT !.at = "finally"]
             e == [c EXCEPT !.status = "FAILED"]
             did == q.did \o (IF q.i > 0 THEN <<"FAILED">> ELSE <<>>) \o Skipped(t)
             r == [e EXCEPT !.did = did]
  <2>1. q.at = "failed" /\ Goes(t, r)
    BY <1>8 DEF Fail, q
  <2>2. c \in Runner /\ c.at = "finally" /\ c.browser = q.browser
    BY <1>3 DEF Stages
  <2>3. did \in Seq({"PASSED", "FAILED", "SKIPPED"})
    <3> DEFINE V == {"PASSED", "FAILED", "SKIPPED"}
               one == IF q.i > 0 THEN <<"FAILED">> ELSE <<>>
               rest == Skipped(t)
    <3>1. one \in Seq(V)
      <4>1. <<>> \in Seq(V) /\ <<"FAILED">> \in Seq(V)
        OBVIOUS
      <4>2. one = <<>> \/ one = <<"FAILED">>
        OBVIOUS
      <4> HIDE DEF one, V
      <4> QED
        BY <4>1, <4>2
    <3>2. rest \in Seq(V)
      <4> DEFINE n == Len(tests[t]) - q.i
      <4>1. rest = [i \in 1..n |-> "SKIPPED"]
        BY DEF Skipped, q
      <4>2. n \in Int /\ "SKIPPED" \in V
        BY <1>1, <1>2
      <4> HIDE DEF n, V
      <4>3. CASE n \in Nat
        BY <4>1, <4>2, <4>3
      <4>4. CASE n \notin Nat
        <5>1. 1..n = 1..0
          BY <4>2, <4>4
        <5>2. rest = [i \in 1..0 |-> "SKIPPED"]
          BY <4>1, <5>1
        <5> QED
          BY <4>2, <5>2
      <4> QED
        BY <4>3, <4>4
    <3> HIDE DEF one, rest
    <3>3. q.did \o one \in Seq(V)
      BY <1>2, <3>1, ConcatProperties
    <3>4. (q.did \o one) \o rest \in Seq(V)
      BY <3>2, <3>3, ConcatProperties
    <3> QED
      BY <3>4 DEF one, rest
  <2> HIDE DEF c, did
  <2>4. e \in Runner /\ e.at = "finally" /\ e.browser = q.browser
    BY <2>2 DEF Runner
  <2> HIDE DEF e
  <2>5. r \in Runner /\ r.at = "finally" /\ r.browser = q.browser
    BY <2>3, <2>4 DEF Runner
  <2> HIDE DEF r
  <2>6. Become(t, q, r)
    BY <2>1, <2>5 DEF Become
  <2> QED
    BY <1>0, <1>4, <2>1, <2>5, <2>6
<1>9. CASE Finally(t)
  <2> DEFINE f == [q EXCEPT !.at = "insert"]
             e == [q EXCEPT !.at = "escaped"]
  <2>1. q.at = "finally" /\ (Goes(t, f) \/ ("close" \in may /\ Goes(t, e)))
    BY <1>9 DEF Finally, q
  <2>2. f \in Runner /\ f.at = "insert" /\ f.browser = q.browser /\ Alike(q, f)
    BY <1>3 DEF Stages
  <2>3. e \in Runner /\ e.at = "escaped" /\ e.browser = q.browser
    BY <1>3 DEF Stages
  <2> HIDE DEF f, e
  <2>4. Become(t, q, f)
    BY <2>1, <2>2 DEF Become
  <2>5. Become(t, q, e)
    BY <2>3 DEF Become
  <2> QED
    BY <1>0, <1>4, <2>1, <2>2, <2>3, <2>4, <2>5
<1>10. CASE Insert(t)
  <2> DEFINE f == [q EXCEPT !.at = "update"]
  <2>1. /\ q.at = "insert" /\ runner' = [runner EXCEPT ![t] = f] /\ result' = result
        /\ rows' = rows \/ rows' = [rows EXCEPT ![t] = q.did]
    BY <1>10 DEF Insert, q
  <2>2. f \in Runner /\ f.at = "update" /\ f.browser = q.browser /\ Alike(q, f)
    BY <1>3 DEF Stages
  <2> HIDE DEF f
  <2>3. Become(t, q, f)
    BY <2>1, <2>2 DEF Become
  <2>4. Becomes(t, f)
    BY <1>0, <2>1, <2>2, <2>3 DEF Becomes, q
  <2> QED
    BY <2>4
<1>11. CASE Update(t)
  <2> DEFINE f == [q EXCEPT !.at = "done"]
             e == [q EXCEPT !.at = "escaped"]
  <2>1. /\ q.at = "update" /\ rows' = rows
        /\ \/ result' = [result EXCEPT ![t] = q.status] /\ runner' = [runner EXCEPT ![t] = f]
           \/ "error" \in may /\ runner' = [runner EXCEPT ![t] = e] /\ result' = result
    BY <1>11 DEF Update, q
  <2>2. f \in Runner /\ f.at = "done" /\ f.browser = q.browser /\ Alike(q, f) /\ f.status = q.status
    BY <1>3 DEF Stages
  <2>3. e \in Runner /\ e.at = "escaped" /\ e.browser = q.browser
    BY <1>3 DEF Stages
  <2> HIDE DEF f, e
  <2>4. Become(t, q, f)
    BY <2>1, <2>2 DEF Become
  <2>5. Become(t, q, e)
    BY <2>3 DEF Become
  <2>6. CASE result' = [result EXCEPT ![t] = q.status] /\ runner' = [runner EXCEPT ![t] = f]
    <3>1. Becomes(t, f)
      BY <1>0, <2>1, <2>2, <2>4, <2>6 DEF Becomes, q
    <3> QED
      BY <3>1
  <2>7. CASE "error" \in may /\ runner' = [runner EXCEPT ![t] = e] /\ result' = result
    <3>1. Becomes(t, e)
      BY <1>0, <2>1, <2>3, <2>5, <2>7 DEF Becomes, q
    <3> QED
      BY <3>1
  <2> QED
    BY <2>1, <2>6, <2>7
<1> QED
  BY <1>5, <1>6, <1>7, <1>8, <1>9, <1>10, <1>11 DEF RunTest

LEMMA RunnerBecomes ==
  ASSUME TypeInv, ShapeInv, BatchInv, NEW t \in All, RunTest(t)
  PROVE  \E r : /\ Becomes(t, r) /\ t \in Ran
                /\ runner' \in [All -> Runner] /\ runner'[t] = r
                /\ \A u \in All : u # t => runner'[u] = runner[u] /\ result'[u] = result[u]
                /\ r.at = "done" => result'[t] = r.status
                /\ result' \in [All -> {"RUNNING", "COMPLETED", "FAILED"}]
                /\ rows' \in [All -> Seq({"PASSED", "FAILED", "SKIPPED"})]
                /\ UNCHANGED <<captureVars, boxVars>>
<1>1. PICK s : Steps(t, s)
  BY RunnerMoves
<1>2. /\ UNCHANGED <<captureVars, boxVars>> /\ t \in Ran
      /\ \A u \in All : u # t => result'[u] = result[u]
      /\ result' \in [All -> {"RUNNING", "COMPLETED", "FAILED"}]
  BY <1>1 DEF Steps, BatchInv
<1>3. PICK r : Becomes(t, r)
  BY <1>2, RunnerGoes
<1>4. /\ runner \in [All -> Runner] /\ rows \in [All -> Seq({"PASSED", "FAILED", "SKIPPED"})]
      /\ result \in [All -> {"RUNNING", "COMPLETED", "FAILED"}]
  BY DEF TypeInv, ReplayTypes
<1>5. runner' = [runner EXCEPT ![t] = r] /\ r \in Runner
  BY <1>3 DEF Becomes
<1>6. /\ runner' \in [All -> Runner] /\ runner'[t] = r
      /\ \A u \in All : u # t => runner'[u] = runner[u]
  BY <1>4, <1>5
<1>7. r.at = "done" => result'[t] = r.status
  BY <1>3, <1>4 DEF Becomes
<1>8. rows' \in [All -> Seq({"PASSED", "FAILED", "SKIPPED"})]
  <2>1. runner[t].did \in Seq({"PASSED", "FAILED", "SKIPPED"})
    BY <1>4, RunnerIs
  <2>2. rows' = rows \/ rows' = [rows EXCEPT ![t] = runner[t].did]
    BY <1>3 DEF Becomes
  <2> QED
    BY <1>4, <2>1, <2>2
<1> QED
  BY <1>2, <1>3, <1>6, <1>7, <1>8

LEMMA TypeInvIs == TypeInv => TypeOK
BY DEF TypeInv, CaptureTypes, ReplayTypes, TypeOK

LEMMA InitTypes == Init => TypeInv
<1> SUFFICES ASSUME Init PROVE TypeInv
  OBVIOUS
<1>1. <<>> \in Seq({"PASSED", "FAILED", "SKIPPED"})
  BY EmptySeq
<1>2. /\ runner \in [All -> Runner] /\ rows \in [All -> Seq({"PASSED", "FAILED", "SKIPPED"})]
      /\ result \in [All -> {"RUNNING", "COMPLETED", "FAILED"}]
      /\ \A t \in All : runner[t] = NewRunner
  BY <1>1, RunnerNew DEF Init
<1>3. ReplayTypes
  BY <1>2, RunnerNew DEF Init, ReplayTypes
<1> QED
  BY <1>3, InitCaptureTypes DEF TypeInv

\* The container does nothing to what was recorded.
LEMMA BoxTypes ==
  ASSUME TypeInv, ShapeInv, Move \/ Start \/ StartBatch \/ Exit \/ EditTest
  PROVE  TypeInv'
<1>0. UNCHANGED <<captureVars, resultVars>>
  BY DEF Move, Start, StartBatch, Exit, EditTest
<1>1. CaptureTypes'
  BY <1>0 DEF TypeInv, CaptureTypes, CaptureTypeOK, captureVars, browserVars
<1>2. /\ box \in {"none", "up", "exited"}
      /\ width \in Parallel \cup {0} /\ away \in BOOLEAN /\ next \in Nat
      /\ runner \in [All -> Runner] /\ edited \subseteq All
      /\ \A t \in All : /\ runner[t].browser \in Rested
                        /\ runner[t].at = "steps" => runner[t].i # 0
      /\ result' \in [All -> {"RUNNING", "COMPLETED", "FAILED"}]
      /\ rows' \in [All -> Seq({"PASSED", "FAILED", "SKIPPED"})]
  BY <1>0 DEF TypeInv, ReplayTypes, resultVars
<1>3. CASE Move \/ Start \/ Exit \/ EditTest
  <2>1. /\ box' \in {"none", "up", "exited"} /\ width' \in Parallel \cup {0} /\ away' \in BOOLEAN
        /\ UNCHANGED <<next, runner>> /\ edited' \subseteq All
    BY <1>2, <1>3, TestsAre DEF Move, Start, Exit, EditTest
  <2> QED
    BY <1>1, <1>2, <2>1 DEF TypeInv, ReplayTypes
<1>4. CASE StartBatch
  <2>1. \A t \in All : LET r == [runner[t] EXCEPT !.at = "setup"] IN
                         r \in Runner /\ r.at = "setup" /\ r.browser = runner[t].browser
    <3> SUFFICES ASSUME NEW t \in All
                 PROVE  LET r == [runner[t] EXCEPT !.at = "setup"] IN
                          r \in Runner /\ r.at = "setup" /\ r.browser = runner[t].browser
      OBVIOUS
    <3>1. runner[t] \in Runner /\ "setup" \in Stages
      BY <1>2 DEF Stages
    <3> QED
      BY <3>1, RunnerAt
  <2>2. \A t \in All : runner'[t] = IF t \in Batch THEN [runner[t] EXCEPT !.at = "setup"] ELSE runner[t]
    BY <1>4 DEF StartBatch
  <2>3. \A t \in All : /\ runner'[t] \in Runner /\ runner'[t].browser \in Rested
                       /\ runner'[t].at = "steps" => runner'[t].i # 0
    BY <1>2, <2>1, <2>2
  <2>4. runner' = [t \in All |-> runner'[t]]
    BY <1>4 DEF StartBatch
  <2>5. runner' \in [All -> Runner]
    BY <2>3, <2>4
  <2>6. next' \in Nat
    <3>1. width \in Nat /\ next \in Nat /\ next' = next + width
      BY <1>4 DEF StartBatch, ShapeInv
    <3> QED
      BY <3>1
  <2>7. UNCHANGED <<box, width, away, edited>>
    BY <1>4 DEF StartBatch
  <2> QED
    BY <1>1, <1>2, <2>3, <2>5, <2>6, <2>7 DEF TypeInv, ReplayTypes
<1> QED
  BY <1>3, <1>4

LEMMA RunTestTypes ==
  ASSUME TypeInv, ShapeInv, BatchInv, NEW t \in All, RunTest(t)
  PROVE  TypeInv'
<1>1. PICK r : /\ Becomes(t, r)
               /\ runner' \in [All -> Runner] /\ runner'[t] = r
               /\ \A u \in All : u # t => runner'[u] = runner[u]
               /\ result' \in [All -> {"RUNNING", "COMPLETED", "FAILED"}]
               /\ rows' \in [All -> Seq({"PASSED", "FAILED", "SKIPPED"})]
               /\ UNCHANGED <<captureVars, boxVars>>
  BY RunnerBecomes
<1>2. r.browser \in Rested /\ (r.at = "steps" => r.i # 0)
  BY <1>1 DEF Becomes
<1>3. \A u \in All : /\ runner'[u].browser \in Rested
                     /\ runner'[u].at = "steps" => runner'[u].i # 0
  BY <1>1, <1>2 DEF TypeInv, ReplayTypes
<1>4. CaptureTypes'
  BY <1>1 DEF TypeInv, CaptureTypes, CaptureTypeOK, captureVars, browserVars
<1>5. ReplayTypes'
  BY <1>1, <1>3 DEF TypeInv, ReplayTypes, boxVars
<1> QED
  BY <1>4, <1>5 DEF TypeInv

LEMMA NextTypes == TypeInv /\ ShapeInv /\ BatchInv /\ [Next]_vars => TypeInv'
<1> SUFFICES ASSUME TypeInv, ShapeInv, BatchInv, [Next]_vars PROVE TypeInv'
  OBVIOUS
<1>1. CASE UNCHANGED vars
  <2>1. CaptureTypes'
    BY <1>1 DEF TypeInv, CaptureTypes, CaptureTypeOK, vars, captureVars, browserVars
  <2>2. ReplayTypes'
    BY <1>1 DEF TypeInv, ReplayTypes, vars, replayVars, boxVars, resultVars
  <2> QED
    BY <2>1, <2>2 DEF TypeInv
<1>2. CASE CaptureNext /\ UNCHANGED replayVars
  <2>1. CaptureTypes'
    BY <1>2, NextCaptureTypes DEF TypeInv
  <2>2. ReplayTypes'
    BY <1>2 DEF TypeInv, ReplayTypes, replayVars, boxVars, resultVars
  <2> QED
    BY <2>1, <2>2 DEF TypeInv
<1> QED
  BY <1>1, <1>2, BoxTypes, RunTestTypes DEF Next

\* Type correctness: whatever the user does and whatever becomes of the connection, what is
\* captured of an action is a step that a browser can be told, every conversion leaves a test
\* of such steps, and a runner that is told one is on an element of the web.
THEOREM ReplayTypeCorrect == Spec => []TypeOK
BY InitBatches, NextBatches, InitTypes, NextTypes, TypeInvIs, PTL DEF Spec

LEMMA InitLengths == Init => Lengths
BY DEF Init, CaptureInit, Lengths, Ran

LEMMA NextLengths == Lengths /\ TypeInv /\ [Next]_vars => Lengths'
<1> SUFFICES ASSUME Lengths, TypeInv, [Next]_vars PROVE Lengths'
  OBVIOUS
<1>1. CASE Convert
  <2>1. /\ tests' = Append(tests, Converted(recording)) /\ recording \in Seq(Kept)
        /\ Len(tests') = Len(tests) + 1 /\ Len(tests) \in Nat
        /\ tests'[Len(tests) + 1] = Converted(recording)
        /\ \A t \in 1..Len(tests) : tests'[t] = tests[t]
    BY <1>1, ConvertIs DEF TypeInv
  <2>2. Len(Converted(recording)) \in Nat \ {0}
    BY <2>1, ConvertedIs, CaptureTypesAre DEF TypeInv
  <2>3. \A t \in 1..(Len(tests) + 1) : t \in 1..Len(tests) \/ t = Len(tests) + 1
    BY <2>1
  <2> QED
    BY <2>1, <2>2, <2>3 DEF Lengths, Ran
<1>2. CASE ~Convert
  <2>1. UNCHANGED tests
    BY <1>2 DEF Next, CaptureNext, Use, Perform, Handlers, Resolve, Act, Capture, Commit,
       NotLoaded, Drop, browserVars, Rejoin, Deliver, Flush, Stop, Stopped, Move, Start, StartBatch,
       Exit, EditTest, RunTest, Setup, RunStep, Pass, Fail, Finally, Insert, Update, Goes, vars,
       captureVars
  <2> QED
    BY <2>1 DEF Lengths, Ran
<1> QED
  BY <1>1, <1>2

\* The results of a judged test are complete and in order, and its verdict is theirs: wherever
\* it failed, however its page was lost, whatever the other tests of its batch do.
THEOREM StepsAreAccounted == Spec => []StepsAccounted
<1>1. ShapeInv /\ TrackInv /\ Lengths => StepsAccounted
  <2> SUFFICES ASSUME ShapeInv, TrackInv, Lengths, Without({"edited", "error"}), NEW t \in Ran,
                      result[t] # "RUNNING"
               PROVE  /\ Len(rows[t]) = Len(tests[t])
                      /\ \A i \in 1..Len(rows[t]) - 1 :
                           rows[t][i] # "PASSED" => rows[t][i + 1] = "SKIPPED"
                      /\ Count(t, "FAILED") <= 1
                      /\ result[t] = "COMPLETED" <=> Count(t, "PASSED") = Len(tests[t])
    BY DEF StepsAccounted
  <2> DEFINE n == Len(tests[t])
             did == runner[t].did
  <2>1. /\ n \in Nat \ {0} /\ rows[t] = did /\ Whole(did, n, result[t])
        /\ result[t] \in {"COMPLETED", "FAILED"}
    BY TestsAre DEF TrackInv, Track, Reached, Written, Lengths, ShapeInv
  <2> HIDE DEF n, did
  <2>2. CASE result[t] = "COMPLETED"
    <3>1. did \in Seq(Verdicts) /\ Len(did) = n /\ \A j \in 1..n : did[j] = "PASSED"
      BY <2>1, <2>2 DEF Whole, Passed
    <3>2. Count(t, "PASSED") = n
      BY <2>1, <3>1, CountAll
    <3>3. Count(t, "FAILED") <= 1
      BY <2>1, <3>1, CountOne
    <3> QED
      BY <2>1, <2>2, <3>1, <3>2, <3>3 DEF n
  <2>3. CASE result[t] = "FAILED"
    <3>1. PICK k \in 0..n : FailedAt(did, k, n)
      BY <2>1, <2>3 DEF Whole
    <3>2. /\ did \in Seq(Verdicts) /\ Len(did) = n
          /\ \A j \in 1..n :
               did[j] = IF j < k THEN "PASSED" ELSE IF j = k THEN "FAILED" ELSE "SKIPPED"
      BY <3>1 DEF FailedAt
    <3>3. did[n] # "PASSED"
      BY <2>1, <3>2
    <3>4. Count(t, "PASSED") # n
      <4>1. n \in 1..n /\ ~(\A j \in 1..n : rows[t][j] = "PASSED")
        BY <2>1, <3>3
      <4> QED
        BY <2>1, <3>2, <4>1, CountAll
    <3>5. Count(t, "FAILED") <= 1
      BY <2>1, <3>2, CountOne
    <3>6. \A i \in 1..(n - 1) : did[i] # "PASSED" => did[i + 1] = "SKIPPED"
      BY <2>1, <3>2
    <3> QED
      BY <2>1, <2>3, <3>2, <3>4, <3>5, <3>6 DEF n
  <2> QED
    BY <2>1, <2>2, <2>3
<1> QED
  BY <1>1, InitBatches, NextBatches, InitTypes, NextTypes, InitLengths, NextLengths, InitTrack,
     NextTrack, PTL DEF Spec

(***************************************************************************)
(* The recording                                                           *)
(***************************************************************************)

\* Circumstances in which what was recorded replays.
Calm ==
  SelectorsTell /\ Without({"hasty", "quick", "lost", "broken", "saved", "flaky", "setup"})

\* All that was captured, with the page where it began; and where the browser is, as soon as a
\* page that it is going to is there.
Full == <<Goto(session.target)>> \o (session.steps \o wire)
Now  == [browser |-> Settle(browser), effects |-> effects]

\* One action at a time. What is captured leads to x, where the browser is (Quiet), or where it
\* was before the action under way: what a handler captures of it makes up the difference
\* (Phase). A recording is the first part of what was captured (Part), all of it once the
\* session is stopped (Saved).
Phase(h, x) ==
  /\ handler[h].at \in {"resolve", "act"} => browser.to = None
  /\ handler[h].at = "resolve" => handler[h].do.type = "click" /\ handler[h].do.sel = None
  /\ handler[h].at = "act" =>
       handler[h].do.sel = IF handler[h].do.type = "click"
                           THEN site.selector[<<browser.page, handler[h].do.point>>] ELSE None
  /\ handler[h].at = "loading" =>
       /\ handler[h].do.type = "navigate" /\ handler[h].do.sel = None
       /\ browser.to = handler[h].do.page /\ x.effects = effects
  /\ handler[h].at = "capture" =>
       Can(x, Captured(handler[h].do)) /\ Does(x, Captured(handler[h].do)) = Now

Alone    == \A h, g \in 1..MaxActions : Busy(h) /\ Busy(g) => h = g
Quiet(x) == (\A h \in 1..MaxActions : handler[h].at \notin {"loading", "capture"}) => x = Now
Saved    == session.st # "active" => Settled /\ wire = <<>> /\ recording = session.steps
Part     == recording # None => \E u \in Seq(Kept) : session.steps = recording \o u
Once     == "part" \notin may /\ tests # <<>> => session.st = "over"

Recorded(x) ==
  /\ Yields(Full, x) /\ Alone /\ Quiet(x) /\ Saved /\ Part /\ Once
  /\ \A h \in 1..MaxActions : Phase(h, x)

RecordInv == Calm => \E x : Recorded(x)

LEMMA FullIs ==
  ASSUME CaptureTypes
  PROVE  /\ Full \in Seq(Kept) /\ session.steps \o wire \in Seq(Kept)
         /\ <<Goto(session.target)>> \in Seq(Kept)
<1> DEFINE g == Goto(session.target)
<1>1. g \in Kept
  BY CaptureTypesAre, NewStepIs
<1> HIDE DEF g
<1>2. <<g>> \in Seq(Kept)
  BY <1>1
<1>3. session.steps \o wire \in Seq(Kept)
  BY CaptureTypesAre, ConcatProperties
<1>4. <<g>> \o (session.steps \o wire) \in Seq(Kept)
  BY <1>2, <1>3, ConcatProperties
<1> QED
  BY <1>2, <1>3, <1>4 DEF Full, g

\* What comes last of the last is last of all.
LEMMA LastOfAll ==
  ASSUME NEW S, NEW g \in Seq(S), NEW s \in Seq(S), NEW w \in Seq(S), NEW y \in S
  PROVE  g \o (s \o Append(w, y)) = Append(g \o (s \o w), y)
<1> DEFINE o == <<y>>
           a == s \o w
           b == g \o a
<1>1. o \in Seq(S)
  OBVIOUS
<1>2. a \in Seq(S)
  BY ConcatProperties
<1>3. b \in Seq(S)
  <2> HIDE DEF a
  <2> QED
    BY <1>2, ConcatProperties
<1>4. Append(w, y) = w \o o
  BY AppendIsConcat
<1>5. Append(b, y) = b \o o
  <2> HIDE DEF b
  <2> QED
    BY <1>3, AppendIsConcat
<1> HIDE DEF o
<1>6. a \o o = s \o (w \o o)
  BY <1>1, ConcatAssociative
<1>7. b \o o = g \o (a \o o)
  <2> HIDE DEF a
  <2> QED
    BY <1>1, <1>2, ConcatAssociative DEF b
<1> QED
  BY <1>4, <1>5, <1>6, <1>7 DEF a, b

\* The head of the second put after the first.
LEMMA HeadMoves ==
  ASSUME NEW S, NEW s \in Seq(S), NEW w \in Seq(S), w # <<>>
  PROVE  Append(s, Head(w)) \o Tail(w) = s \o w
<1> DEFINE a == Head(w)
           o == <<a>>
           t == Tail(w)
<1>1. /\ a \in S /\ t \in Seq(S) /\ Len(t) = Len(w) - 1 /\ Len(w) \in Nat \ {0} /\ a = w[1]
      /\ \A i \in 1..Len(t) : t[i] = w[i + 1]
  BY HeadTailProperties, EmptySeq
<1> HIDE DEF a, t
<1>2. o \in Seq(S) /\ Len(o) = 1 /\ o[1] = a
  BY <1>1
<1>3. Append(s, a) = s \o o
  BY <1>1, AppendIsConcat
<1> HIDE DEF o
<1>4. o \o t \in Seq(S)
  BY <1>1, <1>2, ConcatProperties
<1>5. Len(o \o t) = Len(o) + Len(t)
  BY <1>1, <1>2, ConcatProperties
<1>6. \A i \in 1..(Len(o) + Len(t)) : (o \o t)[i] = IF i <= Len(o) THEN o[i] ELSE t[i - Len(o)]
  BY <1>1, <1>2, ConcatProperties
<1>7. \A i \in 1..Len(o \o t) : (o \o t)[i] = w[i]
  <2> SUFFICES ASSUME NEW i \in 1..Len(o \o t) PROVE (o \o t)[i] = w[i]
    OBVIOUS
  <2>1. i \in 1..(1 + Len(t)) /\ (o \o t)[i] = IF i <= 1 THEN o[i] ELSE t[i - 1]
    BY <1>2, <1>5, <1>6
  <2>2. CASE i = 1
    BY <1>1, <1>2, <2>1, <2>2
  <2>3. CASE i # 1
    <3>1. i - 1 \in 1..Len(t) /\ ~(i <= 1) /\ (i - 1) + 1 = i
      BY <1>1, <2>1, <2>3
    <3>2. t[i - 1] = w[(i - 1) + 1]
      BY <1>1, <3>1
    <3> QED
      BY <2>1, <3>1, <3>2
  <2> QED
    BY <2>2, <2>3
<1>8. Len(o \o t) = Len(w)
  BY <1>1, <1>2, <1>5
<1>9. o \o t = w
  BY <1>4, <1>7, <1>8, SeqEqual
<1>10. (s \o o) \o t = s \o (o \o t)
  BY <1>1, <1>2, ConcatAssociative
<1> QED
  BY <1>3, <1>9, <1>10 DEF a, t

\* What is captured comes last.
LEMMA FullMore ==
  ASSUME CaptureTypes, NEW y \in Kept, wire' = Append(wire, y), session' = session
  PROVE  Full' = Append(Full, y)
<1> DEFINE g == <<Goto(session.target)>>
           s == session.steps
<1>1. g \in Seq(Kept) /\ s \in Seq(Kept) /\ wire \in Seq(Kept)
  BY FullIs, CaptureTypesAre
<1>2. Full = g \o (s \o wire) /\ Full' = g \o (s \o Append(wire, y))
  BY DEF Full
<1> HIDE DEF g, s
<1>3. g \o (s \o Append(wire, y)) = Append(g \o (s \o wire), y)
  BY <1>1, LastOfAll
<1> QED
  BY <1>2, <1>3

\* On its way or there, it makes no difference.
LEMMA FullSame ==
  ASSUME CaptureTypes, wire # <<>>, wire' = Tail(wire), session'.target = session.target,
         session'.steps = Append(session.steps, Head(wire))
  PROVE  Full' = Full
<1>1. session.steps \in Seq(Kept) /\ wire \in Seq(Kept)
  BY CaptureTypesAre
<1>2. Append(session.steps, Head(wire)) \o Tail(wire) = session.steps \o wire
  BY <1>1, HeadMoves
<1> QED
  BY <1>2 DEF Full

\* An action that settled left nobody at work.
LEMMA NotBusy ==
  ASSUME CaptureTypes, NEW h \in 1..MaxActions
  PROVE  /\ ~Busy(h) => handler[h].at \in {"idle", "done"}
         /\ Busy(h) => handler[h].at \in {"resolve", "act", "loading", "capture"}
BY CaptureTypesAre, HandlerIs DEF Busy, HandlerStages

\* A selector that was captured finds what was clicked.
LEMMA ClickAgain ==
  ASSUME CaptureTypes, SelectorsTell, NEW h \in 1..MaxActions,
         handler[h].do.type = "click",
         handler[h].do.sel = site.selector[<<browser.page, handler[h].do.point>>]
  PROVE  /\ Target(browser, Captured(handler[h].do).sel) # {}
         /\ Found(browser, Captured(handler[h].do)) = handler[h].do.point
         /\ Captured(handler[h].do).sel # None
<1> DEFINE p == handler[h].do.point
           s == handler[h].do.sel
           y == Captured(handler[h].do)
<1>1. p \in Points /\ browser.page \in Pages /\ site.selector \in [Element -> Points]
  BY CaptureTypesAre DEF CanDo, Site
<1>2. y \in Kept /\ y.sel = s /\ y.type = "click"
  BY CapturedIs
<1>3. s = site.selector[<<browser.page, p>>]
  OBVIOUS
<1> HIDE DEF p, s, y
<1>4. \A q \in Points : <<browser.page, q>> \in Element
  BY <1>1 DEF Element
<1>5. s \in Points /\ s # None
  BY <1>1, <1>3, <1>4, CaptureTypesAre
<1>6. p \in Target(browser, s)
  BY <1>1, <1>3 DEF Target
<1>7. \A q \in Target(browser, s) : q = p
  <2> SUFFICES ASSUME NEW q \in Points, site.selector[<<browser.page, q>>] = s PROVE q = p
    BY DEF Target
  <2> DEFINE e == <<browser.page, q>>
             f == <<browser.page, p>>
  <2>1. e \in Element /\ f \in Element /\ e[1] = f[1]
    BY <1>1, <1>4
  <2>2. site.selector[e] = site.selector[f]
    BY <1>3
  <2>3. e = f
    BY <2>1, <2>2 DEF SelectorsTell
  <2> QED
    BY <2>3
<1>8. Found(browser, y) \in Target(browser, y.sel)
  BY <1>2, <1>5, <1>6, FoundIs
<1> QED
  BY <1>2, <1>5, <1>6, <1>7, <1>8 DEF p, s, y

LEMMA DoesOther ==
  ASSUME NEW st, NEW x, NEW y, y.type = x.type, y.text = x.text,
         x.type = "click" => Found(st.browser, y) = Found(st.browser, x), x.type # "navigate"
  PROVE  Does(st, y) = Does(st, x)
<1> DEFINE b == st.browser
<1>1. Acted(b, y) = Acted(b, x)
  BY DEF Acted
<1>2. Effects(b, y) = Effects(b, x)
  BY DEF Effects
<1> QED
  BY <1>1, <1>2 DEF Does

LEMMA CalmSame ==
  ASSUME site' = site, may' = may
  PROVE  Calm' <=> Calm
BY DEF Calm, SelectorsTell, Without

LEMMA CapturedSame ==
  ASSUME site' = site, NEW h, handler'[h].do = handler[h].do, NEW x
  PROVE  /\ (Can(x, Captured(handler[h].do)))' <=> Can(x, Captured(handler[h].do))
         /\ (Does(x, Captured(handler[h].do)))' = Does(x, Captured(handler[h].do))
<1>1. (Can(x, Captured(handler[h].do)))' <=> Can(x, Captured(handler[h].do))
  BY SameWeb
<1>2. (Does(x, Captured(handler[h].do)))' = Does(x, Captured(handler[h].do))
  BY SameWeb
<1> QED
  BY <1>1, <1>2

LEMMA PhaseSame ==
  ASSUME site' = site, browser' = browser, effects' = effects, NEW h, handler'[h] = handler[h],
         NEW x, Phase(h, x)
  PROVE  Phase(h, x)'
<1>1. Now' = Now
  BY DEF Now
<1> QED
  BY <1>1, CapturedSame DEF Phase

\* Who is not at work bears no proof.
LEMMA PhaseIdle ==
  ASSUME NEW h, NEW x, handler'[h].at \notin {"resolve", "act", "loading", "capture"}
  PROVE  Phase(h, x)'
BY DEF Phase

LEMMA AloneKept ==
  ASSUME Alone, \A g \in 1..MaxActions : Busy(g)' => Busy(g)
  PROVE  Alone'
BY DEF Alone

\* What does not change but for the handlers and the browser.
LEMMA RecordSide ==
  ASSUME UNCHANGED <<site, wire, session, recording, tests, may>>, NEW x, Yields(Full, x), Part, Once
  PROVE  Yields(Full, x)' /\ Part' /\ Once'
<1>1. Full' = Full
  BY DEF Full
<1>2. (Yields(Full, x))' <=> Yields(Full', x)
  BY SamePlays
<1> QED
  BY <1>1, <1>2 DEF Part, Once

\* Whatever leaves the recording alone.
LEMMA RecordKept ==
  ASSUME UNCHANGED <<site, browser, effects, handler, wire, session, recording, tests, may>>,
         NEW x, Recorded(x)
  PROVE  Recorded(x)'
<1>1. Yields(Full, x)' /\ Part' /\ Once'
  BY RecordSide DEF Recorded
<1>2. \A h \in 1..MaxActions : Phase(h, x)'
  BY PhaseSame DEF Recorded
<1>3. Alone' /\ Quiet(x)' /\ Saved'
  BY DEF Recorded, Alone, Quiet, Saved, Settled, Busy, Now
<1> QED
  BY <1>1, <1>2, <1>3 DEF Recorded

LEMMA InitRecord == Init => RecordInv
<1> SUFFICES ASSUME Init, Calm PROVE \E x : Recorded(x)
  BY DEF RecordInv
<1>1. CaptureTypes
  BY InitCaptureTypes
<1>2. /\ "saved" \notin may /\ wire = <<>> /\ effects = <<>> /\ tests = <<>>
      /\ handler = [h \in 1..MaxActions |-> Idle]
  BY DEF Calm, Without, Init, CaptureInit
<1>3. PICK p \in Pages : /\ browser = [page |-> p, focus |-> None, to |-> None] /\ recording = None
                         /\ session = [st |-> "active", target |-> p, steps |-> <<>>]
  BY <1>2 DEF Init, CaptureInit
<1> DEFINE g == Goto(p)
           x == Does(Blank, g)
<1>4. g \in Kept /\ g.type = "navigate" /\ g.page = p
  BY NewStepIs
<1>5. Full = <<g>>
  <2>1. Full = <<g>> \o (<<>> \o <<>>)
    BY <1>2, <1>3 DEF Full
  <2> HIDE DEF g
  <2>2. <<g>> \in Seq(Kept) /\ <<>> \in Seq(Kept)
    BY <1>4
  <2> QED
    BY <2>1, <2>2
<1>6. Yields(Full, x)
  <2>1. site \in Site /\ <<>> \in Seq(Kept)
    BY <1>1, CaptureTypesAre
  <2> HIDE DEF g
  <2>2. Can(Blank, g)
    BY <1>4 DEF Can
  <2>3. Yields(Append(<<>>, g), Does(Blank, g))
    BY <1>4, <2>1, <2>2, YieldsNone, YieldsMore
  <2>4. Append(<<>>, g) = <<g>>
    BY <1>4
  <2> QED
    BY <1>5, <2>3, <2>4
<1>7. x = Now
  <2>1. x = [browser |-> [page |-> p, focus |-> None, to |-> None], effects |-> <<>>]
    BY <1>4, BlankIs, DoesNavigate
  <2>2. Settle(browser) = browser
    BY <1>3 DEF Settle
  <2> QED
    BY <1>2, <1>3, <2>1, <2>2 DEF Now
<1>8. \A h \in 1..MaxActions : ~Busy(h) /\ Phase(h, x)
  BY <1>2 DEF Busy, Phase, Idle
<1>9. Recorded(x)
  <2> HIDE DEF x
  <2> QED
    BY <1>2, <1>3, <1>6, <1>7, <1>8 DEF Recorded, Alone, Quiet, Saved, Part, Once
<1> QED
  BY <1>9

LEMMA RecordUse ==
  ASSUME CaptureTypes, Calm, NEW x, Recorded(x), Use
  PROVE  Recorded(x)'
<1>1. PICK step \in Step : /\ Perform(step) /\ step.sel = None
                           /\ step.type = "click" => step.point \in Points
                           /\ step.type # "click" => step.point = None
  BY UseIs
<1>2. PICK h \in 1..MaxActions :
         /\ session.st = "active"
         /\ handler' \in [1..MaxActions -> Handler]
         /\ handler'[h].do = step
         /\ handler'[h].at = IF ~online THEN "done" ELSE IF step.point = None THEN "act" ELSE "resolve"
         /\ \A g \in 1..MaxActions : g # h => handler'[g] = handler[g]
         /\ "hasty" \notin may => Settled
         /\ UNCHANGED <<site, browser, effects, online, wire, session, recording, tests, may>>
  BY <1>1, PerformIs
<1>3. browser.to = None /\ \A g \in 1..MaxActions : ~Busy(g)
  BY <1>2 DEF Calm, Without, Settled
<1>4. \A g \in 1..MaxActions : g # h => ~Busy(g)'
  BY <1>2, <1>3 DEF Busy
<1>5. x = Now /\ Now' = Now
  BY <1>2, <1>3 DEF Recorded, Quiet, Busy, Now
<1>6. Phase(h, x)'
  <2>1. None \notin Points
    BY CaptureTypesAre
  <2> QED
    BY <1>1, <1>2, <1>3, <2>1 DEF Phase
<1>7. \A g \in 1..MaxActions : Phase(g, x)'
  BY <1>2, <1>6, PhaseSame DEF Recorded
<1>8. Yields(Full, x)' /\ Part' /\ Once'
  BY <1>2, RecordSide DEF Recorded
<1>9. Alone' /\ Quiet(x)' /\ Saved'
  BY <1>2, <1>4, <1>5 DEF Alone, Quiet, Saved
<1> QED
  BY <1>7, <1>8, <1>9 DEF Recorded

\* Who is at work is alone, and the session is active.
LEMMA AtWork ==
  ASSUME CaptureTypes, NEW x, Recorded(x), NEW h \in 1..MaxActions, Busy(h)
  PROVE  /\ session.st = "active" /\ \A g \in 1..MaxActions : g # h => ~Busy(g)
         /\ handler[h].at \in {"resolve", "act"} => x = Now /\ browser.to = None
<1>1. \A g \in 1..MaxActions : g # h => ~Busy(g)
  BY DEF Recorded, Alone
<1>2. session.st = "active"
  BY CaptureTypesAre DEF Recorded, Saved, Settled
<1>3. ASSUME handler[h].at \in {"resolve", "act"} PROVE x = Now /\ browser.to = None
  <2>1. \A g \in 1..MaxActions : handler[g].at \notin {"loading", "capture"}
    BY <1>1, <1>3 DEF Busy
  <2> QED
    BY <1>3, <2>1 DEF Recorded, Quiet, Phase
<1> QED
  BY <1>1, <1>2, <1>3

LEMMA RecordResolve ==
  ASSUME CaptureTypes, Calm, NEW x, Recorded(x), NEW h \in 1..MaxActions, Resolve(h)
  PROVE  Recorded(x)'
<1> DEFINE do == handler[h].do
           re == handler'[h].do
<1>1. /\ handler[h].at = "resolve" /\ handler'[h].at = "act"
      /\ handler' \in [1..MaxActions -> Handler]
      /\ re.type = do.type /\ re.point = do.point
      /\ re.sel = site.selector[<<browser.page, do.point>>] \/ browser.to # None
      /\ \A g \in 1..MaxActions : g # h => handler'[g] = handler[g]
      /\ UNCHANGED <<site, browser, effects, online, wire, session, recording, tests, may>>
  BY ResolveIs
<1>2. Busy(h)
  BY <1>1 DEF Busy
<1>3. /\ session.st = "active" /\ x = Now /\ browser.to = None
      /\ \A g \in 1..MaxActions : g # h => ~Busy(g)
  BY <1>1, <1>2, AtWork
<1>4. do.type = "click"
  BY <1>1 DEF Recorded, Phase
<1>5. Phase(h, x)'
  <2> HIDE DEF do, re
  <2>1. re.type = "click" /\ re.sel = site'.selector[<<browser'.page, re.point>>]
    BY <1>1, <1>3, <1>4
  <2> QED
    BY <1>1, <1>3, <2>1 DEF Phase, re
<1>6. \A g \in 1..MaxActions : Phase(g, x)'
  BY <1>1, <1>5, PhaseSame DEF Recorded
<1>7. Yields(Full, x)' /\ Part' /\ Once'
  BY <1>1, RecordSide DEF Recorded
<1>8. Alone'
  <2>1. \A g \in 1..MaxActions : Busy(g)' => Busy(g)
    BY <1>1, <1>2 DEF Busy
  <2> QED
    BY <2>1, AloneKept DEF Recorded
<1>9. Quiet(x)' /\ Saved'
  BY <1>1, <1>3 DEF Quiet, Saved, Now
<1> QED
  BY <1>6, <1>7, <1>8, <1>9 DEF Recorded

LEMMA RecordAct ==
  ASSUME CaptureTypes, Calm, NEW x, Recorded(x), NEW h \in 1..MaxActions, Act(h)
  PROVE  Recorded(x)'
<1> DEFINE do == handler[h].do
           here == Here(do)
           y == Captured(do)
<1>1. /\ handler[h].at = "act" /\ handler' \in [1..MaxActions -> Handler]
      /\ handler'[h].do = do
      /\ \A g \in 1..MaxActions : g # h => handler'[g] = handler[g]
      /\ UNCHANGED <<site, online, wire, session, recording, tests, may>>
      /\ do.type = "navigate" =>
           handler'[h].at = "loading" /\ effects' = effects /\ browser'.to = do.page
      /\ do.type # "navigate" =>
           /\ handler'[h].at = "capture" /\ browser' = Acted(browser, here)
           /\ effects' = effects \o Effects(browser, here)
  BY ActIs
<1>2. Busy(h)
  BY <1>1 DEF Busy
<1>3. /\ session.st = "active" /\ x = Now /\ browser.to = None
      /\ \A g \in 1..MaxActions : g # h => ~Busy(g)
  BY <1>1, <1>2, AtWork
<1>4. do.sel = IF do.type = "click" THEN site.selector[<<browser.page, do.point>>] ELSE None
  BY <1>1 DEF Recorded, Phase
<1>5. Settle(browser) = browser /\ x.browser = browser /\ x.effects = effects
  BY <1>3 DEF Settle, Now
<1>6. Phase(h, x)'
  <2>1. CASE do.type = "navigate"
    BY <1>1, <1>4, <1>5, <2>1 DEF Phase
  <2>2. CASE do.type # "navigate"
    <3>1. /\ y.type = do.type /\ y.text = do.text /\ y.sel = do.sel
          /\ here.type = do.type /\ here.text = do.text /\ here.sel = None /\ here.point = do.point
      BY CapturedIs, HereIs
    <3>2. do.type = "click" => Target(browser, y.sel) # {} /\ Found(browser, y) = do.point
      BY <1>4, ClickAgain DEF Calm
    <3>3. browser.page # None
      BY CaptureTypesAre
    <3> HIDE DEF do, here, y
    <3>4. Can(x, y)
      BY <1>4, <1>5, <3>1, <3>2, <3>3 DEF Can
    <3>5. Found(browser, here) = do.point
      BY <3>1 DEF Found
    <3>6. Does(x, y) = Does(x, here)
      BY <1>5, <2>2, <3>1, <3>2, <3>5, DoesOther
    <3>7. Does(x, here) = Now'
      BY <1>1, <1>5, <2>2, <3>1 DEF Does, Now, Settle
    <3>8. handler'[h].do = handler[h].do
      BY <1>1 DEF do
    <3>9. /\ (Can(x, Captured(handler[h].do)))'
          /\ (Does(x, Captured(handler[h].do)))' = Now'
      BY <1>1, <3>4, <3>6, <3>7, <3>8, CapturedSame DEF y, do
    <3> QED
      BY <1>1, <2>2, <3>9 DEF Phase
  <2> QED
    BY <2>1, <2>2
<1>7. \A g \in 1..MaxActions : g # h => Phase(g, x)'
  <2> SUFFICES ASSUME NEW g \in 1..MaxActions, g # h PROVE Phase(g, x)'
    OBVIOUS
  <2>1. handler'[g].at \notin {"resolve", "act", "loading", "capture"}
    BY <1>1, <1>3 DEF Busy
  <2> QED
    BY <2>1, PhaseIdle
<1>8. Yields(Full, x)' /\ Part' /\ Once'
  BY <1>1, RecordSide DEF Recorded
<1>9. Alone'
  <2>1. \A g \in 1..MaxActions : Busy(g)' => Busy(g)
    BY <1>1, <1>2 DEF Busy
  <2> QED
    BY <2>1, AloneKept DEF Recorded
<1>10. Quiet(x)' /\ Saved'
  BY <1>1, <1>3 DEF Quiet, Saved
<1> QED
  BY <1>6, <1>7, <1>8, <1>9, <1>10 DEF Recorded

LEMMA RecordCapture ==
  ASSUME CaptureTypes, Calm, NEW x, Recorded(x), NEW h \in 1..MaxActions, Capture(h)
  PROVE  \E z : Recorded(z)'
<1> DEFINE y == Captured(handler[h].do)
           z == Does(x, y)
<1>1. /\ handler[h].at = "capture" /\ At(h, "done") /\ wire' = Append(wire, y)
      /\ UNCHANGED <<site, browser, effects, online, session, recording, tests, may>>
  BY DEF Capture, Emit
<1>2. /\ handler'[h] = [at |-> "done", do |-> handler[h].do]
      /\ \A g \in 1..MaxActions : g # h => handler'[g] = handler[g]
  BY <1>1, AtIs, CaptureTypesAre DEF HandlerStages
<1>3. Busy(h)
  BY <1>1 DEF Busy
<1>4. session.st = "active" /\ \A g \in 1..MaxActions : g # h => ~Busy(g)
  BY <1>3, AtWork
<1>5. Can(x, y) /\ z = Now /\ Now' = Now
  BY <1>1 DEF Recorded, Phase, Now
<1>6. \A g \in 1..MaxActions : ~Busy(g)'
  BY <1>2, <1>4 DEF Busy
<1>7. y \in Kept
  BY CapturedIs
<1>8. PICK w : w = z
  OBVIOUS
<1>9. Yields(Full, w)'
  <2>1. Full' = Append(Full, y)
    BY <1>1, <1>7, FullMore
  <2>2. Full \in Seq(Kept) /\ site \in Site
    BY FullIs, CaptureTypesAre
  <2> HIDE DEF y
  <2>3. Yields(Append(Full, y), w)
    BY <1>5, <1>7, <1>8, <2>2, YieldsMore DEF Recorded
  <2>4. Yields(Full', w)
    BY <2>1, <2>3
  <2> QED
    BY <1>1, <2>4, SamePlays
<1>10. Alone' /\ Quiet(w)' /\ Saved' /\ Part' /\ Once'
  BY <1>1, <1>4, <1>5, <1>6, <1>8 DEF Recorded, Alone, Quiet, Saved, Part, Once
<1>11. \A g \in 1..MaxActions : Phase(g, w)'
  BY <1>6, PhaseIdle DEF Busy
<1>12. Recorded(w)'
  BY <1>9, <1>10, <1>11 DEF Recorded
<1> QED
  BY <1>12

LEMMA RecordCommit ==
  ASSUME CaptureTypes, Calm, NEW x, Recorded(x), Commit
  PROVE  \E z : Recorded(z)'
<1> DEFINE to == browser.to
           y == Goto(to)
<1>1. /\ to \in Pages /\ to # None /\ browser' = Loaded(browser, to)
      /\ \A h \in 1..MaxActions : handler[h].at # "capture"
      /\ \A h \in 1..MaxActions :
           /\ handler'[h].do = handler[h].do
           /\ handler'[h].at = IF handler[h].at # "loading" THEN handler[h].at
                               ELSE IF handler[h].do.page = to THEN "capture" ELSE "done"
      /\ wire' = Append(wire, y)
      /\ UNCHANGED <<site, effects, online, session, recording, tests, may>>
  BY CommitIs, CaptureTypesAre DEF Calm, Without
<1>2. y \in Kept /\ y.type = "navigate" /\ y.page = to
  BY <1>1, NewStepIs
<1>3. x \in State /\ Full \in Seq(Kept) /\ site \in Site /\ effects \in Seq(Effect)
  BY FullIs, YieldsState, CaptureTypesAre DEF Recorded
<1>4. x.effects = effects
  <2>1. CASE \E h \in 1..MaxActions : handler[h].at = "loading"
    BY <2>1 DEF Recorded, Phase
  <2>2. CASE \A h \in 1..MaxActions : handler[h].at # "loading"
    <3>1. x = Now
      BY <1>1, <2>2 DEF Recorded, Quiet
    <3> QED
      BY <3>1 DEF Now
  <2> QED
    BY <2>1, <2>2
<1>5. PICK w : w = [browser |-> [page |-> to, focus |-> None, to |-> None], effects |-> effects]
  OBVIOUS
<1>6. Now' = w
  BY <1>1, <1>5 DEF Now, Settle, Loaded
<1>7. session.st = "active"
  BY <1>1 DEF Recorded, Saved, Settled
<1>8. Yields(Full, w)'
  <2>1. Full' = Append(Full, y)
    BY <1>1, <1>2, FullMore
  <2> HIDE DEF y, to
  <2>2. Can(x, y)
    BY <1>2 DEF Can
  <2>3. Does(x, y) = w
    BY <1>2, <1>3, <1>4, <1>5, DoesNavigate
  <2>4. Yields(Append(Full, y), w)
    BY <1>2, <1>3, <2>2, <2>3, YieldsMore DEF Recorded
  <2>5. Yields(Full', w)
    BY <2>1, <2>4
  <2> QED
    BY <1>1, <2>5, SamePlays
<1>9. \A g \in 1..MaxActions : Phase(g, w)'
  <2> SUFFICES ASSUME NEW g \in 1..MaxActions PROVE Phase(g, w)'
    OBVIOUS
  <2>1. Phase(g, x)
    BY DEF Recorded
  <2>2. handler[g].at \notin {"resolve", "act"}
    BY <1>1, <2>1 DEF Phase
  <2>3. CASE handler[g].at # "loading"
    <3>1. handler'[g].at \notin {"resolve", "act", "loading", "capture"}
      BY <1>1, <2>2, <2>3
    <3> QED
      BY <3>1, PhaseIdle
  <2>4. CASE handler[g].at = "loading"
    <3> DEFINE do == handler[g].do
               k == Captured(do)
    <3>1. do.type = "navigate" /\ do.page = to
      BY <2>1, <2>4 DEF Phase
    <3>2. handler'[g].at = "capture" /\ handler'[g].do = handler[g].do
      BY <1>1, <2>4, <3>1
    <3>3. k.type = "navigate" /\ k.page = to
      BY <3>1, CapturedIs
    <3>4. w \in State
      <4>1. Does(x, y) \in State
        BY <1>2, <1>3, DoesIs DEF Can
      <4> QED
        BY <1>2, <1>3, <1>4, <1>5, <4>1, DoesNavigate
    <3>5. w.effects = effects
      BY <1>5
    <3> HIDE DEF k, to, do
    <3>6. Can(w, k)
      BY <3>3 DEF Can
    <3>7. Does(w, k) = w
      BY <1>5, <3>3, <3>4, <3>5, DoesNavigate
    <3>8. /\ (Can(w, Captured(handler[g].do)))'
          /\ (Does(w, Captured(handler[g].do)))' = Now'
      BY <1>1, <1>6, <3>2, <3>6, <3>7, CapturedSame DEF k, do
    <3> QED
      BY <3>2, <3>8 DEF Phase
  <2> QED
    BY <2>3, <2>4
<1>10. Alone'
  <2>1. \A g \in 1..MaxActions : Busy(g)' => Busy(g)
    BY <1>1 DEF Busy
  <2> QED
    BY <2>1, AloneKept DEF Recorded
<1>11. Quiet(w)' /\ Saved' /\ Part' /\ Once'
  BY <1>1, <1>6, <1>7 DEF Recorded, Quiet, Saved, Part, Once
<1>12. Recorded(w)'
  BY <1>8, <1>9, <1>10, <1>11 DEF Recorded
<1> QED
  BY <1>12

\* What the service does leaves the browser and its handlers alone.
LEMMA RecordService ==
  ASSUME UNCHANGED <<site, browser, effects, handler, may>>, NEW x, Recorded(x),
         Full' = Full, Saved', Part', Once'
  PROVE  Recorded(x)'
<1>1. Yields(Full, x)'
  <2>1. Yields(Full', x)
    BY DEF Recorded
  <2> QED
    BY <2>1, SamePlays
<1>2. \A h \in 1..MaxActions : Phase(h, x)'
  BY PhaseSame DEF Recorded
<1>3. Alone' /\ Quiet(x)'
  BY DEF Recorded, Alone, Quiet, Busy, Now
<1> QED
  BY <1>1, <1>2, <1>3 DEF Recorded

LEMMA RecordDeliver ==
  ASSUME CaptureTypes, Calm, NEW x, Recorded(x), Deliver
  PROVE  Recorded(x)'
<1>1. /\ wire # <<>> /\ wire' = Tail(wire) /\ Head(wire) \in Kept
      /\ session'.st = session.st /\ session'.target = session.target
      /\ session.st # "over" => session'.steps = Append(session.steps, Head(wire))
      /\ UNCHANGED <<site, browser, effects, handler, online, recording, tests, may>>
  BY DeliverIs
<1>2. session.st = "active"
  BY <1>1 DEF Recorded, Saved
<1>3. Full' = Full
  BY <1>1, <1>2, FullSame
<1>4. Saved' /\ Once'
  BY <1>1, <1>2 DEF Recorded, Saved, Once
<1>5. Part'
  <2> SUFFICES ASSUME recording # None
               PROVE  \E u \in Seq(Kept) : Append(session.steps, Head(wire)) = recording \o u
    BY <1>1, <1>2 DEF Part
  <2>1. PICK u \in Seq(Kept) : session.steps = recording \o u
    BY DEF Recorded, Part
  <2> DEFINE k == Head(wire)
             o == <<k>>
             v == u \o o
             s == session.steps
  <2>2. recording \in Seq(Kept) /\ s \in Seq(Kept) /\ o \in Seq(Kept) /\ k \in Kept
    BY <1>1, CaptureTypesAre
  <2>3. Append(s, k) = s \o o
    <3> HIDE DEF k, s
    <3> QED
      BY <2>2, AppendIsConcat
  <2> HIDE DEF k, o
  <2>4. v \in Seq(Kept)
    BY <2>2, ConcatProperties
  <2>5. (recording \o u) \o o = recording \o v
    BY <2>2, ConcatAssociative
  <2> QED
    BY <2>1, <2>3, <2>4, <2>5 DEF k, s
<1> QED
  BY <1>1, <1>3, <1>4, <1>5, RecordService

LEMMA RecordSaves ==
  ASSUME CaptureTypes, Calm, NEW x, Recorded(x), Flush \/ Stop
  PROVE  Recorded(x)'
<1>1. /\ recording' = session.steps /\ session'.steps = session.steps
      /\ session'.target = session.target /\ session.st = "active"
      /\ UNCHANGED <<site, browser, effects, handler, wire, tests, may>>
  <2>1. CASE Flush
    BY <2>1 DEF Flush, browserVars
  <2>2. CASE Stop
    <3>1. session' = [session EXCEPT !.st = "stopping"]
      BY <2>2 DEF Stop
    <3>2. session'.steps = session.steps /\ session'.target = session.target
      BY <3>1, ReSession
    <3> QED
      BY <2>2, <3>2 DEF Stop, browserVars
  <2> QED
    BY <2>1, <2>2
<1>2. Full' = Full
  BY <1>1 DEF Full
<1>3. Part'
  <2>1. session.steps \o <<>> = session.steps /\ <<>> \in Seq(Kept)
    BY CaptureTypesAre, ConcatEmptySeq, EmptySeq
  <2> QED
    BY <1>1, <2>1 DEF Part
<1>4. Saved' /\ Once'
  <2>1. CASE Flush
    BY <1>1, <2>1 DEF Flush, Recorded, Saved, Once
  <2>2. CASE Stop
    <3>1. Settled /\ wire = <<>>
      BY <2>2 DEF Stop, Calm, Without
    <3> QED
      BY <1>1, <3>1 DEF Recorded, Saved, Once, Settled, Busy
  <2> QED
    BY <2>1, <2>2
<1> QED
  BY <1>1, <1>2, <1>3, <1>4, RecordService

LEMMA RecordStopped ==
  ASSUME CaptureTypes, Calm, NEW x, Recorded(x), Stopped
  PROVE  Recorded(x)'
<1>1. /\ session' = [session EXCEPT !.st = "over"] /\ session.st = "stopping"
      /\ UNCHANGED <<site, browser, effects, handler, wire, recording, tests, may>>
  BY DEF Stopped, browserVars
<1>2. session'.st = "over" /\ session'.steps = session.steps /\ session'.target = session.target
  BY <1>1, ReSession
<1>3. Full' = Full
  BY <1>1, <1>2 DEF Full
<1>4. Saved' /\ Part' /\ Once'
  BY <1>1, <1>2 DEF Recorded, Saved, Settled, Busy, Part, Once
<1> QED
  BY <1>1, <1>3, <1>4, RecordService

LEMMA RecordConvert ==
  ASSUME CaptureTypes, Calm, NEW x, Recorded(x), Convert
  PROVE  Recorded(x)'
<1>1. /\ session.st = "over" \/ "part" \in may
      /\ UNCHANGED <<site, browser, effects, handler, wire, session, recording, may>>
  BY ConvertIs
<1>2. Full' = Full
  BY <1>1 DEF Full
<1>3. Saved' /\ Part' /\ Once'
  BY <1>1 DEF Recorded, Saved, Settled, Busy, Part, Once
<1> QED
  BY <1>1, <1>2, <1>3, RecordService

LEMMA CaptureRecord == RecordInv /\ CaptureTypes /\ CaptureNext => RecordInv'
<1> SUFFICES ASSUME RecordInv, CaptureTypes, CaptureNext, Calm' PROVE (\E x : Recorded(x))'
  BY DEF RecordInv
<1>1. Calm
  <2>1. site' = site /\ may' = may
    BY DEF CaptureNext, Use, Perform, Handlers, Resolve, Act, Capture, Commit, NotLoaded, Drop,
       Rejoin, Deliver, Flush, Stop, Stopped, Convert
  <2> QED
    BY <2>1, CalmSame
<1>2. PICK x : Recorded(x)
  BY <1>1 DEF RecordInv
<1>3. CASE Use
  BY <1>1, <1>2, <1>3, RecordUse
<1>4. ASSUME NEW h \in 1..MaxActions, Resolve(h) PROVE (\E z : Recorded(z))'
  BY <1>1, <1>2, <1>4, RecordResolve
<1>5. ASSUME NEW h \in 1..MaxActions, Act(h) PROVE (\E z : Recorded(z))'
  BY <1>1, <1>2, <1>5, RecordAct
<1>6. ASSUME NEW h \in 1..MaxActions, Capture(h) PROVE (\E z : Recorded(z))'
  BY <1>1, <1>2, <1>6, RecordCapture
<1>7. CASE Commit
  BY <1>1, <1>2, <1>7, RecordCommit
<1>8. CASE NotLoaded
  BY <1>1, <1>8 DEF NotLoaded, Calm, Without
<1>9. CASE Drop \/ Rejoin
  <2>1. UNCHANGED <<site, browserVars, wire, session, recording, tests, may>>
    BY <1>1, <1>9 DEF Drop, Rejoin, browserVars, Calm, Without
  <2>2. Recorded(x)'
    BY <1>2, <2>1, RecordKept DEF browserVars
  <2> QED
    BY <2>2
<1>10. CASE Deliver
  BY <1>1, <1>2, <1>10, RecordDeliver
<1>11. CASE Flush \/ Stop
  BY <1>1, <1>2, <1>11, RecordSaves
<1>12. CASE Stopped
  BY <1>1, <1>2, <1>12, RecordStopped
<1>13. CASE Convert
  BY <1>1, <1>2, <1>13, RecordConvert
<1> QED
  BY <1>3, <1>4, <1>5, <1>6, <1>7, <1>8, <1>9, <1>10, <1>11, <1>12, <1>13
     DEF CaptureNext, Handlers

\* What was captured, played by a browser, leads where the user is.
LEMMA NextRecord == RecordInv /\ TypeInv /\ [Next]_vars => RecordInv'
<1>1. ASSUME RecordInv, UNCHANGED captureVars PROVE RecordInv'
  <2> SUFFICES ASSUME Calm' PROVE (\E x : Recorded(x))'
    BY DEF RecordInv
  <2>1. PICK x : Recorded(x)
    BY <1>1, CalmSame DEF RecordInv, captureVars
  <2>2. Recorded(x)'
    BY <1>1, <2>1, RecordKept DEF captureVars, browserVars
  <2> QED
    BY <2>2
<1>2. ASSUME [Next]_vars PROVE CaptureNext \/ UNCHANGED captureVars
  BY <1>2 DEF Next, Move, Start, StartBatch, Exit, EditTest, RunTest, Setup, RunStep, Pass, Fail,
     Finally, Insert, Update, Goes, vars
<1> QED
  BY <1>1, <1>2, CaptureRecord DEF TypeInv

(***************************************************************************)
(* The tests                                                               *)
(***************************************************************************)

\* f is how test t goes in a browser, and what it does at the end is what the user did, or the
\* first part of it.
Agrees(e) == IF "part" \in may THEN Grows(e, effects) ELSE e = effects
Tells(s, f) ==
  /\ Plays(f, s) /\ \A i \in 1..Len(s) : Marked(s[i])
  /\ Agrees(f[Len(s)].effects)

\* How far the runner of t is with it. One that escaped is no further than that.
Follows(r, n, f) ==
  /\ r.at # "failed" /\ (r.at # "escaped" => r.status = "COMPLETED")
  /\ r.at \in {"waiting", "setup"} => Where(r) = f[0]
  /\ r.at = "steps" => r.i \in 1..(n + 1) /\ Where(r) = f[r.i - 1]
  /\ r.at \in {"finally", "insert", "update", "done"} => r.effects = f[n].effects

Replays(t, f) ==
  /\ Tells(tests[t], f) /\ Follows(runner[t], Len(tests[t]), f)
  /\ runner[t].at = "done" => result[t] = "COMPLETED"

ReplaysInv == Calm => \A t \in Ran : \E f : Replays(t, f)

LEMMA GrowsTrans ==
  ASSUME NEW c, NEW d, NEW e, Grows(c, d), Grows(d, e)
  PROVE  Grows(c, e)
<1>1. PICK u \in Seq(Effect) : e = d \o u
  BY DEF Grows
<1> QED
  BY <1>1, GrowsOn

\* A test has its steps as long as the web stays as it is, and what the user does later is
\* no part of it.
LEMMA TellsStill ==
  ASSUME UNCHANGED <<site, may>>, NEW s, NEW f, Tells(s, f),
         \/ UNCHANGED effects
         \/ "part" \in may /\ \E u \in Seq(Effect) : effects' = effects \o u
  PROVE  Tells(s, f)'
<1>1. Plays(f, s)' /\ \A i \in 1..Len(s) : Marked(s[i])'
  BY SamePlays DEF Tells, Marked
<1>2. Agrees(f[Len(s)].effects)'
  <2> PICK e : e = f[Len(s)].effects
    OBVIOUS
  <2>1. Agrees(e)
    BY DEF Tells
  <2>2. CASE UNCHANGED effects
    BY <2>1, <2>2 DEF Agrees, Grows
  <2>3. CASE "part" \in may /\ \E u \in Seq(Effect) : effects' = effects \o u
    <3>1. Grows(e, effects)
      BY <2>1, <2>3 DEF Agrees
    <3>2. Grows(e, effects')
      BY <2>3, <3>1, GrowsOn
    <3> QED
      BY <2>3, <3>2 DEF Agrees, Grows
  <2>4. Agrees(e)'
    BY <2>2, <2>3
  <2> QED
    BY <2>4 DEF Agrees, Grows
<1> QED
  BY <1>1, <1>2 DEF Tells

\* What was captured is not ahead of the user.
LEMMA Behind ==
  ASSUME CaptureTypes, NEW x, Recorded(x)
  PROVE  Grows(x.effects, effects)
<1>1. x \in State /\ site \in Site /\ effects \in Seq(Effect)
  BY FullIs, YieldsState, CaptureTypesAre DEF Recorded
<1>2. CASE \E h \in 1..MaxActions : handler[h].at = "capture"
  <2>1. PICK h \in 1..MaxActions : handler[h].at = "capture"
    BY <1>2
  <2> DEFINE y == Captured(handler[h].do)
  <2>2. Can(x, y) /\ Does(x, y) = Now /\ y \in Kept
    BY <2>1, CapturedIs DEF Recorded, Phase
  <2> HIDE DEF y
  <2>3. /\ Effects(x.browser, y) \in Seq(Effect)
        /\ Does(x, y).effects = x.effects \o Effects(x.browser, y)
    BY <1>1, <2>2, DoesIs
  <2>4. Now.effects = effects
    BY DEF Now
  <2>5. effects = x.effects \o Effects(x.browser, y)
    BY <2>2, <2>3, <2>4
  <2>6. x.effects \in Seq(Effect)
    BY <1>1, StateIs
  <2> QED
    BY <2>3, <2>5, <2>6 DEF Grows
<1>3. CASE \A h \in 1..MaxActions : handler[h].at # "capture"
  <2>1. x.effects = effects
    <3>1. CASE \E h \in 1..MaxActions : handler[h].at = "loading"
      BY <3>1 DEF Recorded, Phase
    <3>2. CASE \A h \in 1..MaxActions : handler[h].at # "loading"
      <4>1. x = Now
        BY <1>3, <3>2 DEF Recorded, Quiet
      <4> QED
        BY <4>1 DEF Now
    <3> QED
      BY <3>1, <3>2
  <2> QED
    BY <1>1, <2>1, GrowsNot
<1> QED
  BY <1>2, <1>3

\* A conversion leaves a test that tells what the user did.
LEMMA ConvertTells ==
  ASSUME CaptureTypes, Calm, NEW x, Recorded(x), Convert
  PROVE  \E f : Tells(Converted(recording), f)
<1> DEFINE g == <<Goto(session.target)>>
           s == recording
           c == Converted(s)
<1>1. /\ s # None /\ s \in Seq(Kept) /\ g \in Seq(Kept) /\ wire \in Seq(Kept) /\ site \in Site
      /\ session.target \in Pages /\ session.steps \in Seq(Kept)
      /\ session.st = "over" \/ "part" \in may
  BY ConvertIs, FullIs, CaptureTypesAre
<1>2. Yields(g \o (session.steps \o wire), x)
  BY DEF Recorded, Full
<1>3. \E z : Yields(g \o s, z) /\ Agrees(z.effects)
  <2>1. CASE "part" \in may
    <3>1. PICK u \in Seq(Kept) : session.steps = s \o u
      BY <1>1 DEF Recorded, Part
    <3> HIDE DEF g, s
    <3>2. (s \o u) \o wire = s \o (u \o wire) /\ u \o wire \in Seq(Kept)
      BY <1>1, ConcatAssociative, ConcatProperties
    <3> DEFINE v == u \o wire
    <3>3. g \o (s \o v) = (g \o s) \o v /\ g \o s \in Seq(Kept) /\ v \in Seq(Kept)
      <4>1. v \in Seq(Kept)
        BY <3>2
      <4> HIDE DEF v
      <4>2. g \o s \in Seq(Kept)
        BY <1>1, ConcatProperties
      <4>3. (g \o s) \o v = g \o (s \o v)
        BY <1>1, <4>1, ConcatAssociative
      <4> QED
        BY <4>1, <4>2, <4>3
    <3>4. Yields((g \o s) \o v, x)
      BY <1>2, <3>1, <3>2, <3>3
    <3> DEFINE w == g \o s
    <3> HIDE DEF v, w
    <3>5. PICK z \in State : Yields(w, z) /\ Grows(z.effects, x.effects)
      BY <1>1, <3>3, <3>4, YieldsPart DEF w
    <3>6. Grows(z.effects, effects)
      BY <3>5, Behind, GrowsTrans
    <3> QED
      BY <2>1, <3>5, <3>6 DEF Agrees, w
  <2>2. CASE "part" \notin may
    <3>1. session.st = "over" /\ Settled /\ wire = <<>> /\ s = session.steps
      BY <1>1, <2>2 DEF Recorded, Saved
    <3>2. x = Now
      BY <3>1 DEF Recorded, Quiet, Settled, Busy
    <3>3. session.steps \o wire = s
      BY <1>1, <3>1, ConcatEmptySeq
    <3>4. x.effects = effects
      BY <3>2 DEF Now
    <3> QED
      BY <1>2, <2>2, <3>3, <3>4 DEF Agrees
  <2> QED
    BY <2>1, <2>2
<1>4. PICK z : Yields(g \o s, z) /\ Agrees(z.effects)
  BY <1>3
<1>5. Yields(c, z) /\ \A i \in 1..Len(c) : Marked(c[i])
  BY <1>1, <1>4, YieldsConverted
<1> HIDE DEF c
<1>6. PICK f : Plays(f, c) /\ f[Len(c)] = z
  BY <1>5 DEF Yields
<1>7. Tells(c, f)
  BY <1>4, <1>5, <1>6 DEF Tells
<1> QED
  BY <1>7 DEF c

\* A runner that has not begun.
LEMMA FollowsNew ==
  ASSUME NEW s, NEW f, Tells(s, f)
  PROVE  Follows(NewRunner, Len(s), f)
BY RunnerNew DEF Tells, Plays, Follows

\* A runner goes on in the way its test goes.
LEMMA FollowsOn ==
  ASSUME Calm, NEW t, Len(tests[t]) \in Nat, NEW f, Tells(tests[t], f),
         NEW q, Follows(q, Len(tests[t]), f), NEW r, Become(t, q, r)
  PROVE  Follows(r, Len(tests[t]), f)
<1> DEFINE n == Len(tests[t])
<1>1. /\ f[0] = Blank /\ \A i \in 1..n : /\ Can(f[i - 1], tests[t][i])
                                         /\ f[i] = Does(f[i - 1], tests[t][i])
                                         /\ Marked(tests[t][i])
  BY DEF Tells, Plays
<1>2. "setup" \notin may /\ "flaky" \notin may
  BY DEF Calm, Without
<1>3. q.at = "steps" => q.i \in 1..(n + 1) /\ Where(q) = f[q.i - 1]
  BY DEF Follows
<1>4. q.at = "steps" /\ q.i \in 1..n => Possible(q.browser, tests[t][q.i])
  <2> SUFFICES ASSUME q.at = "steps", q.i \in 1..n PROVE Possible(q.browser, tests[t][q.i])
    OBVIOUS
  <2> DEFINE step == tests[t][q.i]
  <2>1. Can(Where(q), step) /\ Marked(step)
    BY <1>1, <1>3
  <2> HIDE DEF step
  <2>2. step.type = "navigate" => Leads(step)
    BY <2>1 DEF Marked, Leads
  <2>3. Possible(q.browser, step)
    BY <2>1, <2>2, CanPossible
  <2> QED
    BY <2>3 DEF step
<1>5. CASE q.at = "setup" /\ r.at = "steps" /\ r.i = 1 /\ Alike(q, r)
  BY <1>5 DEF Follows, Alike
<1>6. CASE /\ q.at = "steps" /\ q.i \in 1..n /\ r.at = "steps" /\ r.i = q.i + 1
           /\ r.status = q.status /\ Where(r) = Does(Where(q), tests[t][q.i])
  <2>1. Where(r) = f[q.i]
    BY <1>1, <1>3, <1>6
  <2>2. r.i \in 1..(n + 1) /\ r.i - 1 = q.i
    BY <1>6
  <2> QED
    BY <1>6, <2>1, <2>2 DEF Follows
<1>7. CASE q.at = "steps" /\ q.i > n /\ r.at = "finally" /\ Alike(q, r)
  <2>1. q.i - 1 = n
    BY <1>3, <1>7
  <2>2. Where(r) = f[n] /\ r.status = "COMPLETED"
    BY <1>3, <1>7, <2>1 DEF Alike, Follows
  <2>3. Where(r).effects = r.effects
    BY DEF Where
  <2> QED
    BY <1>7, <2>2, <2>3 DEF Follows
<1>8. CASE /\ q.at \in {"finally", "insert", "update"} /\ r.at \in {"insert", "update", "done"}
           /\ Alike(q, r)
  <2>1. Where(r).effects = r.effects /\ Where(q).effects = q.effects
    BY DEF Where
  <2> QED
    BY <1>8, <2>1 DEF Follows, Alike
<1> QED
  BY <1>2, <1>4, <1>5, <1>6, <1>7, <1>8 DEF Become, Follows

LEMMA InitReplays == Init => ReplaysInv
<1> SUFFICES ASSUME Init, Calm, NEW t \in Ran PROVE FALSE
  BY DEF ReplaysInv
<1> QED
  BY DEF Init, CaptureInit, Ran

\* A test whose runner and result stay as they are.
LEMMA ReplaysStill ==
  ASSUME UNCHANGED <<site, may>>, NEW t, NEW f, Replays(t, f),
         tests'[t] = tests[t], runner'[t] = runner[t], result'[t] = result[t],
         \/ UNCHANGED effects
         \/ "part" \in may /\ \E u \in Seq(Effect) : effects' = effects \o u
  PROVE  Replays(t, f)'
<1>1. PICK s : s = tests[t]
  OBVIOUS
<1>2. Tells(s, f)
  BY <1>1 DEF Replays
<1>3. Tells(s, f)'
  BY <1>2, TellsStill
<1>4. tests'[t] = s
  BY <1>1
<1>5. Tells(tests[t], f)'
  BY <1>3, <1>4 DEF Tells, Plays
<1>6. Follows(runner[t], Len(tests[t]), f)'
  BY DEF Replays, Follows
<1> QED
  BY <1>5, <1>6 DEF Replays

\* While the recording goes on: what is converted of it before its end is a part of it.
LEMMA CaptureReplays ==
  ASSUME TypeInv, ShapeInv, BatchInv, RecordInv, ReplaysInv, box = "none", CaptureNext,
         UNCHANGED replayVars, Calm
  PROVE  \A t \in Ran' : \E f : Replays(t, f)'
<1>1. PICK x : Recorded(x)
  BY DEF RecordInv
<1>2. CaptureTypes /\ UNCHANGED <<site, may, runner, result>>
  BY DEF TypeInv, replayVars, resultVars, CaptureNext, Use, Perform, Handlers, Resolve, Act, Capture,
     Commit, NotLoaded, Drop, Rejoin, Deliver, Flush, Stop, Stopped, Convert
<1>3. CASE Convert
  <2>1. /\ recording \in Seq(Kept) /\ Len(tests) \in Nat
        /\ Len(tests') = Len(tests) + 1 /\ Len(tests') <= MaxTests
        /\ tests'[Len(tests) + 1] = Converted(recording)
        /\ \A t \in 1..Len(tests) : tests'[t] = tests[t]
        /\ UNCHANGED effects
    BY <1>2, <1>3, ConvertIs
  <2>2. ASSUME NEW t \in Ran PROVE \E f : Replays(t, f)'
    <3>1. PICK f : Replays(t, f)
      BY DEF ReplaysInv
    <3>2. Replays(t, f)'
      BY <1>2, <2>1, <3>1, ReplaysStill DEF Ran
    <3> QED
      BY <3>2
  <2>3. ASSUME NEW t, t = Len(tests) + 1 PROVE \E f : Replays(t, f)'
    <3>1. PICK c : c = Converted(recording)
      OBVIOUS
    <3>2. PICK f : Tells(c, f)
      BY <1>1, <1>2, <1>3, <3>1, ConvertTells
    <3>3. Tells(c, f)'
      BY <1>2, <2>1, <3>2, TellsStill
    <3>4. tests'[t] = c
      BY <2>1, <2>3, <3>1
    <3>5. Tells(tests[t], f)'
      BY <3>3, <3>4 DEF Tells, Plays
    <3>6. t \in All
      BY <2>1, <2>3, CaptureAssumption DEF All
    <3>7. runner'[t] = NewRunner
      BY <1>2, <3>6 DEF BatchInv
    <3>8. Follows(NewRunner, Len(c), f)
      BY <3>2, FollowsNew
    <3>9. Follows(runner[t], Len(tests[t]), f)'
      BY <3>4, <3>7, <3>8 DEF Follows
    <3>10. runner'[t].at # "done"
      BY <3>7, RunnerNew
    <3>11. Replays(t, f)'
      BY <3>5, <3>9, <3>10 DEF Replays
    <3> QED
      BY <3>11
  <2>4. \A t \in Ran' : t \in Ran \/ t = Len(tests) + 1
    BY <2>1 DEF Ran
  <2> QED
    BY <2>2, <2>3, <2>4
<1>4. CASE ~Convert
  <2>1. UNCHANGED tests
    BY <1>4 DEF CaptureNext, Use, Perform, Handlers, Resolve, Act, Capture, Commit, NotLoaded, Drop,
       browserVars, Rejoin, Deliver, Flush, Stop, Stopped
  <2> SUFFICES ASSUME NEW t \in Ran PROVE \E f : Replays(t, f)'
    BY <2>1 DEF Ran
  <2>2. PICK f : Replays(t, f)
    BY DEF ReplaysInv
  <2>3. \/ UNCHANGED effects
        \/ "part" \in may /\ \E u \in Seq(Effect) : effects' = effects \o u
    <3>1. CASE \E h \in 1..MaxActions : Act(h)
      <4>1. PICK h \in 1..MaxActions : Act(h)
        BY <3>1
      <4>2. handler[h].at = "act" /\ \E u \in Seq(Effect) : effects' = effects \o u
        BY <1>2, <4>1, ActIs
      <4>3. tests # <<>>
        BY DEF Ran
      <4>4. session.st = "active"
        BY <1>1, <1>2, <4>2, AtWork DEF Busy
      <4>5. "part" \in may
        BY <1>1, <4>3, <4>4 DEF Recorded, Once
      <4> QED
        BY <4>2, <4>5
    <3>2. CASE ~(\E h \in 1..MaxActions : Act(h))
      BY <3>2 DEF CaptureNext, Use, Perform, Handlers, Resolve, Capture, Commit, NotLoaded, Drop,
         browserVars, Rejoin, Deliver, Flush, Stop, Stopped, Convert
    <3> QED
      BY <3>1, <3>2
  <2>4. Replays(t, f)'
    BY <1>2, <2>1, <2>2, <2>3, ReplaysStill
  <2> QED
    BY <2>4
<1> QED
  BY <1>3, <1>4

LEMMA BoxReplays ==
  ASSUME TypeInv, ShapeInv, BatchInv, ReplaysInv, Move \/ Start \/ StartBatch \/ Exit \/ EditTest, Calm
  PROVE  \A t \in Ran' : \E f : Replays(t, f)'
<1>1. UNCHANGED <<site, may, effects, tests, result>>
  BY DEF Move, Start, StartBatch, Exit, EditTest, captureVars, browserVars, resultVars
<1> SUFFICES ASSUME NEW t \in Ran PROVE \E f : Replays(t, f)'
  BY <1>1 DEF Ran
<1>2. PICK f : Replays(t, f)
  BY DEF ReplaysInv
<1>3. CASE runner'[t] = runner[t]
  <2>1. Replays(t, f)'
    BY <1>1, <1>2, <1>3, ReplaysStill
  <2> QED
    BY <2>1
<1>4. CASE runner'[t] # runner[t]
  <2>1. StartBatch /\ t \in All
    BY <1>4, TestsAre DEF Move, Start, Exit, EditTest
  <2>2. t \in Batch /\ runner'[t] = [runner[t] EXCEPT !.at = "setup"]
    BY <1>4, <2>1 DEF StartBatch
  <2>3. runner[t].at = "waiting"
    <3>1. next <= t /\ next \in Nat /\ t \in Nat
      BY <2>2 DEF Batch, ShapeInv, Ran
    <3> QED
      BY <2>1, <3>1 DEF BatchInv
  <2>4. runner[t] \in Runner /\ "setup" \in Stages
    BY <2>1 DEF TypeInv, ReplayTypes, Stages
  <2>5. /\ runner'[t].at = "setup" /\ runner'[t].browser = runner[t].browser
        /\ runner'[t].effects = runner[t].effects /\ runner'[t].status = runner[t].status
    BY <2>2, <2>4, RunnerAt
  <2>6. Follows(runner[t], Len(tests[t]), f)
    BY <1>2 DEF Replays
  <2>7. Follows(runner'[t], Len(tests[t]), f)
    BY <2>3, <2>5, <2>6 DEF Follows, Where
  <2>8. PICK s : s = tests[t]
    OBVIOUS
  <2>9. Tells(s, f)'
    BY <1>1, <1>2, <2>8, TellsStill DEF Replays
  <2>10. Replays(t, f)'
    <3>1. Tells(tests[t], f)'
      BY <1>1, <2>8, <2>9 DEF Tells, Plays
    <3>2. Follows(runner[t], Len(tests[t]), f)'
      BY <1>1, <2>7 DEF Follows
    <3> QED
      BY <2>5, <3>1, <3>2 DEF Replays
  <2> QED
    BY <2>10
<1> QED
  BY <1>3, <1>4

LEMMA RunTestReplays ==
  ASSUME TypeInv, ShapeInv, BatchInv, ReplaysInv, NEW u \in All, RunTest(u), Calm
  PROVE  \A t \in Ran' : \E f : Replays(t, f)'
<1>1. PICK r : /\ Becomes(u, r) /\ runner'[u] = r
               /\ \A t \in All : t # u => runner'[t] = runner[t] /\ result'[t] = result[t]
               /\ r.at = "done" => result'[u] = r.status
               /\ UNCHANGED <<captureVars, boxVars>>
  BY RunnerBecomes
<1>2. UNCHANGED <<site, may, effects, tests>>
  BY <1>1 DEF captureVars, browserVars
<1> SUFFICES ASSUME NEW t \in Ran PROVE \E f : Replays(t, f)'
  BY <1>2 DEF Ran
<1>3. PICK f : Replays(t, f)
  BY DEF ReplaysInv
<1>4. t \in All
  BY TestsAre
<1>5. CASE t # u
  <2>1. Replays(t, f)'
    BY <1>1, <1>2, <1>3, <1>4, <1>5, ReplaysStill
  <2> QED
    BY <2>1
<1>6. CASE t = u
  <2>1. Len(tests[t]) \in Nat
    <3>1. tests \in Seq(Seq(Kept))
      BY CaptureTypesAre DEF TypeInv
    <3>2. tests[t] \in Seq(Kept)
      BY <3>1, ElementOfSeq DEF Ran
    <3> QED
      BY <3>2
  <2>2. Tells(tests[t], f) /\ Follows(runner[t], Len(tests[t]), f) /\ Become(t, runner[t], r)
    BY <1>1, <1>3, <1>6 DEF Replays, Becomes
  <2>3. Follows(r, Len(tests[t]), f)
    BY <2>1, <2>2, FollowsOn
  <2>4. PICK s : s = tests[t]
    OBVIOUS
  <2>5. Tells(s, f)'
    BY <1>2, <2>2, <2>4, TellsStill
  <2>6. Tells(tests[t], f)'
    BY <1>2, <2>4, <2>5 DEF Tells, Plays
  <2>7. Follows(runner[t], Len(tests[t]), f)'
    BY <1>1, <1>2, <1>6, <2>3 DEF Follows
  <2>8. runner'[t].at = "done" => result'[t] = "COMPLETED"
    BY <1>1, <1>6, <2>3 DEF Follows
  <2>9. Replays(t, f)'
    BY <2>6, <2>7, <2>8 DEF Replays
  <2> QED
    BY <2>9
<1> QED
  BY <1>5, <1>6

LEMMA NextReplays ==
  TypeInv /\ ShapeInv /\ BatchInv /\ RecordInv /\ ReplaysInv /\ [Next]_vars => ReplaysInv'
<1> SUFFICES ASSUME TypeInv, ShapeInv, BatchInv, RecordInv, ReplaysInv, [Next]_vars, Calm'
             PROVE  \A t \in Ran' : \E f : Replays(t, f)'
  BY DEF ReplaysInv
<1>1. Calm
  <2>1. UNCHANGED <<site, may>>
    BY DEF Next, CaptureNext, Use, Perform, Handlers, Resolve, Act, Capture, Commit, NotLoaded, Drop,
       Rejoin, Deliver, Flush, Stop, Stopped, Convert, Move, Start, StartBatch, Exit, EditTest,
       RunTest, Setup, RunStep, Pass, Fail, Finally, Insert, Update, Goes, vars, captureVars
  <2> QED
    BY <2>1, CalmSame
<1>2. CASE UNCHANGED vars
  <2>1. UNCHANGED <<site, may, effects, tests, runner, result>>
    BY <1>2 DEF vars, captureVars, browserVars, replayVars, resultVars
  <2> SUFFICES ASSUME NEW t \in Ran PROVE \E f : Replays(t, f)'
    BY <2>1 DEF Ran
  <2>2. PICK f : Replays(t, f)
    BY <1>1 DEF ReplaysInv
  <2>3. Replays(t, f)'
    BY <2>1, <2>2, ReplaysStill
  <2> QED
    BY <2>3
<1> QED
  BY <1>1, <1>2, CaptureReplays, BoxReplays, RunTestReplays DEF Next

\* What was recorded replays: for any web whose selectors tell its elements apart, whatever the
\* user did on it, wherever the connection was lost with nothing on its way, however the steps were merged, a test that
\* was converted from the recording passes and does to the web what the user did, or, if the
\* recording was converted before its end, the first part of it.
THEOREM RecordingsReplay == Spec => []Replayable
<1>1. ReplaysInv /\ TypeInv => Replayable
  <2> SUFFICES ASSUME ReplaysInv, Calm, NEW t \in Ran, runner[t].at = "done"
               PROVE  /\ result[t] = "COMPLETED"
                      /\ IF "part" \in may THEN IsPrefix(runner[t].effects, effects)
                         ELSE runner[t].effects = effects
    BY DEF Replayable, Calm
  <2>1. PICK f : Replays(t, f)
    BY DEF ReplaysInv
  <2>2. result[t] = "COMPLETED" /\ Agrees(runner[t].effects)
    BY <2>1 DEF Replays, Tells, Follows
  <2> QED
    BY <2>2, GrowsPrefix DEF Agrees
<1> QED
  BY <1>1, InitBatches, NextBatches, InitTypes, NextTypes, InitRecord, NextRecord, InitReplays,
     NextReplays, PTL DEF Spec

=============================================================================
