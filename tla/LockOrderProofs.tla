--------------------------- MODULE LockOrderProofs ---------------------------
(***************************************************************************)
(* A handle protects its map, for any number of threads, calls and tasks:  *)
(* every call and task takes each lock by the rules of an automaton, and   *)
(* where a thread is in it says what it has of the lock.                   *)
(***************************************************************************)
EXTENDS LockOrder, SequenceTheorems, TLAPS

(***************************************************************************)
(* The phases of a thread's dealings with one lock.                        *)
(***************************************************************************)

\* A writer shuts new readers out before it is in.  After a thread was the only one
\* in a map, all is clear: it has no handle of it, until it keeps what it holds.
Phases == {"out", "shut", "in", "reading", "clear", "holding"}

\* A task gets no handle.
Quiet == {"out", "shut", "in", "reading"}

LockSteps == {"read", "reserve", "drain", "free", "keep"}
On(st, l) == st.do \in LockSteps /\ st.of = l

Opens(st, l, p, q) ==
    /\ p \in {"out", "clear"}
    /\ \/ st.do = "read" /\ l \in Shared /\ q = "reading"
       \/ st.do = "read" /\ l \in Shared /\ p = "clear" /\ q = "holding"
       \/ st.do = "reserve" /\ l \in Shared /\ q = "shut"
       \/ st.do = "reserve" /\ l \notin Shared /\ q = "in"

Closes(st, l, p, q) ==
    \/ st.do = "free" /\ p = "in" /\ q = "out"
    \/ st.do = "free" /\ p = "in" /\ l \in Shared /\ q = "clear"
    \/ st.do = "free" /\ p = "reading" /\ q = "out"
    \/ st.do = "free" /\ p = "holding" /\ q = "clear"
    \/ st.do = "keep" /\ p = "holding" /\ q = "out"

\* A writer that waits for the readers does nothing else before.
Moves(st, l, p, q) ==
    \/ ~ On(st, l) /\ p = q /\ p # "shut"
    \/ /\ On(st, l)
       /\ \/ Opens(st, l, p, q)
          \/ st.do = "drain" /\ l \in Shared /\ p = "shut" /\ q = "in"
          \/ Closes(st, l, p, q)

\* The steps of s take a thread from phase p of lock l to phase q.
Run(P, s, l, p, q) ==
    \E ph \in [0..Len(s) -> P] :
        /\ ph[0] = p /\ ph[Len(s)] = q
        /\ \A i \in 1..Len(s) : Moves(s[i], l, ph[i - 1], ph[i])

Tasks == {"command", "upload", "destroyMain", "destroyDone", "compileMain"}
Steps == [do : LockSteps, of : Locks]
         \cup [do : {"look", "park", "clear", "open", "swap"}, of : Maps \cup {""}]
         \cup [do : {"submit", "later"}, of : Tasks]

\* A call or task, or a part of one, gives back what it takes, and takes only U.
Rests(P, s, U) ==
    /\ s \in Seq(Steps)
    /\ \A l \in Locks : Run(P, s, l, "out", "out")
    /\ \A l \in Locks \ U : \A i \in 1..Len(s) : ~ On(s[i], l)

-----------------------------------------------------------------------------
(***************************************************************************)
(* How runs are put together and taken apart.                              *)
(***************************************************************************)

\* Nothing moves nobody.
LEMMA RunNone ==
    ASSUME NEW P, NEW l, NEW p \in P
    PROVE  Run(P, <<>>, l, p, p)
<1> DEFINE ph == [i \in 0..0 |-> p]
<1>1. ph \in [0..Len(<<>>) -> P] /\ ph[0] = p /\ ph[Len(<<>>)] = p
  OBVIOUS
<1>2. \A i \in 1..Len(<<>>) : Moves(<<>>[i], l, ph[i - 1], ph[i])
  OBVIOUS
<1> QED
  BY <1>1, <1>2 DEF Run

\* One step.
LEMMA RunOne ==
    ASSUME NEW P, NEW l, NEW p \in P, NEW q \in P, NEW st, Moves(st, l, p, q)
    PROVE  Run(P, <<st>>, l, p, q)
<1> DEFINE ph == [i \in 0..1 |-> IF i = 0 THEN p ELSE q]
<1>1. Len(<<st>>) = 1 /\ <<st>>[1] = st
  OBVIOUS
<1>2. ph \in [0..Len(<<st>>) -> P] /\ ph[0] = p /\ ph[Len(<<st>>)] = q
  BY <1>1
<1>3. \A i \in 1..Len(<<st>>) : Moves(<<st>>[i], l, ph[i - 1], ph[i])
  <2> SUFFICES ASSUME NEW i \in 1..1 PROVE Moves(<<st>>[i], l, ph[i - 1], ph[i])
    BY <1>1
  <2>1. i = 1 /\ ph[i - 1] = p /\ ph[i] = q
    OBVIOUS
  <2> QED
    BY <1>1, <2>1
<1> HIDE DEF ph
<1> QED
  BY <1>2, <1>3 DEF Run

\* One part after the other.
LEMMA RunThen ==
    ASSUME NEW P, NEW S, NEW a \in Seq(S), NEW b \in Seq(S), NEW l,
           NEW p, NEW q, NEW r, Run(P, a, l, p, q), Run(P, b, l, q, r)
    PROVE  Run(P, a \o b, l, p, r)
<1>1. PICK pa \in [0..Len(a) -> P] : /\ pa[0] = p /\ pa[Len(a)] = q
                                     /\ \A i \in 1..Len(a) : Moves(a[i], l, pa[i - 1], pa[i])
  BY DEF Run
<1>2. PICK pb \in [0..Len(b) -> P] : /\ pb[0] = q /\ pb[Len(b)] = r
                                     /\ \A i \in 1..Len(b) : Moves(b[i], l, pb[i - 1], pb[i])
  BY DEF Run
<1> DEFINE n == Len(a)
           m == Len(b)
           ph == [i \in 0..(n + m) |-> IF i <= n THEN pa[i] ELSE pb[i - n]]
<1>3. n \in Nat /\ m \in Nat /\ Len(a \o b) = n + m
  OBVIOUS
<1>4. ph \in [0..(n + m) -> P]
  <2> SUFFICES ASSUME NEW i \in 0..(n + m)
               PROVE  (IF i <= n THEN pa[i] ELSE pb[i - n]) \in P
    OBVIOUS
  <2>1. CASE i <= n
    <3>1. i \in 0..n
      BY <1>3, <2>1
    <3> QED
      BY <1>1, <2>1, <3>1
  <2>2. CASE ~ i <= n
    <3>1. i - n \in 0..m
      BY <1>3, <2>2
    <3> QED
      BY <1>2, <2>2, <3>1
  <2> QED
    BY <2>1, <2>2
<1>5. ph[0] = p /\ ph[n + m] = r
  <2>1. ph[0] = p
    BY <1>1, <1>3
  <2>2. CASE m = 0
    BY <1>1, <1>2, <1>3, <2>2
  <2>3. CASE m # 0
    <3>1. n + m \in 0..(n + m) /\ ~ n + m <= n /\ (n + m) - n = m
      BY <1>3, <2>3
    <3> QED
      BY <1>2, <2>1, <3>1
  <2> QED
    BY <2>1, <2>2, <2>3
<1>6. ASSUME NEW i \in 1..(n + m)
      PROVE  Moves((a \o b)[i], l, ph[i - 1], ph[i])
  <2>1. CASE i <= n
    <3>1. i \in 1..n /\ i - 1 <= n /\ i - 1 \in 0..(n + m) /\ i \in 0..(n + m)
      BY <1>3, <2>1
    <3>2. ph[i] = pa[i] /\ ph[i - 1] = pa[i - 1] /\ (a \o b)[i] = a[i]
      BY <1>3, <2>1, <3>1
    <3> HIDE DEF ph
    <3> QED
      BY <1>1, <3>1, <3>2
  <2>2. CASE ~ i <= n
    <3>1. i - n \in 1..m /\ i - 1 \in 0..(n + m) /\ i \in 0..(n + m)
      BY <1>3, <2>2
    <3>2. ph[i] = pb[i - n] /\ (a \o b)[i] = b[i - n]
      BY <1>3, <2>2, <3>1
    <3>3. ph[i - 1] = pb[(i - n) - 1]
      <4>1. CASE i - 1 <= n
        <5>1. i - 1 = n /\ (i - n) - 1 = 0
          BY <1>3, <2>2, <4>1
        <5>2. ph[i - 1] = pa[n]
          BY <1>3, <3>1, <5>1
        <5> QED
          BY <1>1, <1>2, <5>1, <5>2
      <4>2. CASE ~ i - 1 <= n
        <5>1. (i - 1) - n = (i - n) - 1
          BY <1>3
        <5> QED
          BY <3>1, <4>2, <5>1
      <4> QED
        BY <4>1, <4>2
    <3> HIDE DEF ph
    <3> QED
      BY <1>2, <3>1, <3>2, <3>3
  <2> QED
    BY <2>1, <2>2
<1> HIDE DEF ph
<1> QED
  BY <1>3, <1>4, <1>5, <1>6 DEF Run

\* The first step, and the rest.
LEMMA RunTail ==
    ASSUME NEW P, NEW S, NEW s \in Seq(S), s # <<>>, NEW l, NEW p, NEW r,
           Run(P, s, l, p, r)
    PROVE  \E q \in P : Moves(Head(s), l, p, q) /\ Run(P, Tail(s), l, q, r)
<1>1. PICK ph \in [0..Len(s) -> P] : /\ ph[0] = p /\ ph[Len(s)] = r
                                     /\ \A i \in 1..Len(s) : Moves(s[i], l, ph[i - 1], ph[i])
  BY DEF Run
<1> DEFINE n == Len(s)
           pt == [i \in 0..(n - 1) |-> ph[i + 1]]
<1>2. n \in Nat \ {0} /\ Len(Tail(s)) = n - 1 /\ Head(s) = s[1]
  OBVIOUS
<1>3. 1 \in 0..n /\ 1 \in 1..n
  BY <1>2
<1>4. Moves(Head(s), l, p, ph[1]) /\ ph[1] \in P
  BY <1>1, <1>2, <1>3
<1>5. pt \in [0..(n - 1) -> P]
  <2> SUFFICES ASSUME NEW i \in 0..(n - 1) PROVE ph[i + 1] \in P
    OBVIOUS
  <2> QED
    BY <1>1, <1>2
<1>6. pt[0] = ph[1] /\ pt[n - 1] = r
  BY <1>1, <1>2
<1>7. ASSUME NEW i \in 1..(n - 1) PROVE Moves(Tail(s)[i], l, pt[i - 1], pt[i])
  <2>1. i + 1 \in 1..n /\ i - 1 \in 0..(n - 1) /\ i \in 0..(n - 1) /\ (i - 1) + 1 = i
        /\ (i + 1) - 1 = i
    BY <1>2
  <2>2. Tail(s)[i] = s[i + 1] /\ pt[i - 1] = ph[i] /\ pt[i] = ph[i + 1]
    BY <1>2, <2>1
  <2> HIDE DEF pt
  <2> QED
    BY <1>1, <2>1, <2>2
<1> HIDE DEF pt
<1>8. Run(P, Tail(s), l, ph[1], r)
  BY <1>2, <1>5, <1>6, <1>7 DEF Run
<1> QED
  BY <1>4, <1>8

\* Steps that leave a lock alone leave its phase alone.
LEMMA RunAside ==
    ASSUME NEW P, NEW s \in Seq(Steps), NEW l, NEW p \in P, p # "shut",
           \A i \in 1..Len(s) : ~ On(s[i], l)
    PROVE  Run(P, s, l, p, p)
<1> DEFINE ph == [i \in 0..Len(s) |-> p]
<1>1. ph \in [0..Len(s) -> P] /\ ph[0] = p /\ ph[Len(s)] = p
  OBVIOUS
<1>2. \A i \in 1..Len(s) : Moves(s[i], l, ph[i - 1], ph[i])
  <2> SUFFICES ASSUME NEW i \in 1..Len(s) PROVE Moves(s[i], l, ph[i - 1], ph[i])
    OBVIOUS
  <2>1. ph[i - 1] = p /\ ph[i] = p
    OBVIOUS
  <2> HIDE DEF ph
  <2> QED
    BY <2>1 DEF Moves
<1> HIDE DEF ph
<1> QED
  BY <1>1, <1>2 DEF Run

\* At the end of a run there is nothing but its last phase.
LEMMA RunEnd ==
    ASSUME NEW P, NEW s, s = <<>>, NEW l, NEW p, NEW q, Run(P, s, l, p, q)
    PROVE  p = q
  BY DEF Run

\* A run of few phases is a run of more.
LEMMA RunMore ==
    ASSUME NEW P, NEW Q, P \subseteq Q, NEW s, NEW l, NEW p, NEW q, Run(P, s, l, p, q)
    PROVE  Run(Q, s, l, p, q)
<1>1. PICK ph \in [0..Len(s) -> P] : /\ ph[0] = p /\ ph[Len(s)] = q
                                     /\ \A i \in 1..Len(s) : Moves(s[i], l, ph[i - 1], ph[i])
  BY DEF Run
<1>2. ph \in [0..Len(s) -> Q]
  OBVIOUS
<1> QED
  BY <1>1, <1>2 DEF Run

-----------------------------------------------------------------------------
(***************************************************************************)
(* Sections of locks rest, and so does what is made of them.               *)
(***************************************************************************)

\* The parts of the phase sets that calls and tasks have in common.
LEMMA PhaseFacts ==
    /\ Quiet \subseteq Phases
    /\ {"out", "shut", "in", "reading"} \subseteq Quiet
    /\ "out" \in Quiet /\ "shut" \in Quiet /\ "in" \in Quiet /\ "reading" \in Quiet
    /\ "clear" \in Phases /\ "holding" \in Phases
  BY DEF Quiet, Phases

\* Steps are steps.
LEMMA LockStep ==
    ASSUME NEW l \in Locks, NEW do \in LockSteps
    PROVE  /\ Step(do, l) \in Seq(Steps)
           /\ \A m \in Locks \ {l} : \A i \in 1..Len(Step(do, l)) : ~ On(Step(do, l)[i], m)
<1>1. [do |-> do, of |-> l] \in Steps
  BY DEF Steps
<1> QED
  BY <1>1 DEF Step, On

\* A step that is not of a lock rests.
LEMMA OtherRests ==
    ASSUME NEW do, NEW of, do \notin LockSteps, [do |-> do, of |-> of] \in Steps
    PROVE  Rests(Quiet, Step(do, of), {})
<1>1. Step(do, of) \in Seq(Steps)
  BY DEF Step
<1>2. \A l \in Locks : \A i \in 1..Len(Step(do, of)) : ~ On(Step(do, of)[i], l)
  BY DEF Step, On
<1>3. \A l \in Locks : Run(Quiet, Step(do, of), l, "out", "out")
  BY <1>1, <1>2, RunAside, PhaseFacts
<1> QED
  BY <1>1, <1>2, <1>3 DEF Rests

\* Nothing rests.
LEMMA NothingRests == Rests(Quiet, <<>>, {})
<1>1. \A l \in Locks : Run(Quiet, <<>>, l, "out", "out")
  BY RunNone, PhaseFacts
<1> QED
  BY <1>1 DEF Rests

\* Calls have more phases than tasks.
LEMMA RestsMore ==
    ASSUME NEW s, NEW U, Rests(Quiet, s, U)
    PROVE  Rests(Phases, s, U)
  BY RunMore, PhaseFacts DEF Rests

\* One part after the other.
LEMMA ThenRests ==
    ASSUME NEW P, NEW a, NEW b, NEW U, NEW V, Rests(P, a, U), Rests(P, b, V)
    PROVE  Rests(P, a \o b, U \cup V)
<1>1. a \in Seq(Steps) /\ b \in Seq(Steps) /\ a \o b \in Seq(Steps)
  BY DEF Rests
<1>2. \A l \in Locks : Run(P, a \o b, l, "out", "out")
  BY <1>1, RunThen DEF Rests
<1>3. ASSUME NEW l \in Locks, l \notin U \cup V, NEW i \in 1..Len(a \o b)
      PROVE  ~ On((a \o b)[i], l)
  <2>1. CASE i <= Len(a)
    <3>1. i \in 1..Len(a) /\ (a \o b)[i] = a[i]
      BY <1>1, <2>1
    <3> QED
      BY <1>3, <3>1 DEF Rests
  <2>2. CASE ~ i <= Len(a)
    <3>1. i - Len(a) \in 1..Len(b) /\ (a \o b)[i] = b[i - Len(a)]
      BY <1>1, <2>2
    <3> QED
      BY <1>3, <3>1 DEF Rests
  <2> QED
    BY <2>1, <2>2
<1> QED
  BY <1>1, <1>2, <1>3 DEF Rests

\* What opens a lock, leaves it alone and closes it, with or without a wait for its
\* readers, takes a thread through the phases of that lock and of no other.
LEMMA SectionRuns ==
    ASSUME NEW P, Quiet \subseteq P, NEW l \in Locks, NEW inner, NEW U,
           Rests(P, inner, U), l \notin U,
           NEW a \in Seq(Steps), NEW b \in Seq(Steps), NEW p \in P \ {"shut"}, NEW q \in P,
           Run(P, a, l, "out", p), Run(P, b, l, p, q),
           \A m \in Locks \ {l} : \A i \in 1..Len(a) : ~ On(a[i], m),
           \A m \in Locks \ {l} : \A i \in 1..Len(b) : ~ On(b[i], m)
    PROVE  /\ a \o inner \o b \in Seq(Steps)
           /\ Run(P, a \o inner \o b, l, "out", q)
           /\ \A m \in Locks \ {l} : Run(P, a \o inner \o b, m, "out", "out")
           /\ \A m \in Locks \ (U \cup {l}) : \A i \in 1..Len(a \o inner \o b) :
                 ~ On((a \o inner \o b)[i], m)
<1>1. inner \in Seq(Steps) /\ a \o inner \in Seq(Steps) /\ (a \o inner) \o b \in Seq(Steps)
  BY DEF Rests
<1>2. "out" \in P
  BY PhaseFacts
<1>3. Run(P, inner, l, p, p)
  BY <1>1, RunAside DEF Rests
<1>4. Run(P, a \o inner, l, "out", p)
  BY <1>1, <1>3, RunThen
<1>5. Run(P, (a \o inner) \o b, l, "out", q)
  BY <1>1, <1>4, RunThen
<1>6. ASSUME NEW m \in Locks \ {l}
      PROVE  Run(P, (a \o inner) \o b, m, "out", "out")
  <2>1. Run(P, a, m, "out", "out") /\ Run(P, b, m, "out", "out")
    BY <1>2, <1>6, RunAside
  <2>2. Run(P, inner, m, "out", "out")
    BY <1>6 DEF Rests
  <2>3. Run(P, a \o inner, m, "out", "out")
    BY <1>1, <2>1, <2>2, RunThen
  <2> QED
    BY <1>1, <2>1, <2>3, RunThen
<1>7. ASSUME NEW m \in Locks \ (U \cup {l}), NEW i \in 1..Len((a \o inner) \o b)
      PROVE  ~ On(((a \o inner) \o b)[i], m)
  <2> DEFINE na == Len(a)
             ni == Len(inner)
  <2>1. na \in Nat /\ ni \in Nat /\ Len(a \o inner) = na + ni
    BY <1>1
  <2>2. CASE i <= na
    <3>1. i \in 1..Len(a) /\ ((a \o inner) \o b)[i] = a[i]
      BY <1>1, <2>1, <2>2
    <3> QED
      BY <1>7, <3>1
  <2>3. CASE ~ i <= na /\ i <= na + ni
    <3>1. i - na \in 1..Len(inner) /\ ((a \o inner) \o b)[i] = inner[i - na]
      BY <1>1, <2>1, <2>3
    <3> QED
      BY <1>7, <3>1 DEF Rests
  <2>4. CASE ~ i <= na + ni
    <3>1. i - (na + ni) \in 1..Len(b) /\ ((a \o inner) \o b)[i] = b[i - (na + ni)]
      BY <1>1, <2>1, <2>4
    <3> QED
      BY <1>7, <3>1
  <2> QED
    BY <2>2, <2>3, <2>4
<1> QED
  BY <1>1, <1>5, <1>6, <1>7

\* lock_shared ... unlock_shared.
LEMMA ReadingRests ==
    ASSUME NEW P, Quiet \subseteq P, NEW l \in Shared, NEW inner, NEW U, l \notin U,
           Rests(P, inner, U)
    PROVE  Rests(P, Reading(l, inner), U \cup {l})
<1>1. l \in Locks /\ "read" \in LockSteps /\ "free" \in LockSteps
  BY DEF Locks, LockSteps
<1>2. {"out", "reading"} \subseteq P
  BY PhaseFacts
<1>3. Run(P, Step("read", l), l, "out", "reading")
  <2>1. Moves([do |-> "read", of |-> l], l, "out", "reading")
    BY <1>1 DEF Moves, On, Opens
  <2> QED
    BY <1>2, <2>1, RunOne DEF Step
<1>4. Run(P, Step("free", l), l, "reading", "out")
  <2>1. Moves([do |-> "free", of |-> l], l, "reading", "out")
    BY <1>1 DEF Moves, On, Closes
  <2> QED
    BY <1>2, <2>1, RunOne DEF Step
<1>5. /\ Step("read", l) \in Seq(Steps)
      /\ \A m \in Locks \ {l} : \A i \in 1..Len(Step("read", l)) : ~ On(Step("read", l)[i], m)
  BY <1>1, LockStep
<1>6. /\ Step("free", l) \in Seq(Steps)
      /\ \A m \in Locks \ {l} : \A i \in 1..Len(Step("free", l)) : ~ On(Step("free", l)[i], m)
  BY <1>1, LockStep
<1> DEFINE a == Step("read", l)
           b == Step("free", l)
<1> HIDE DEF a, b
<1>7. "reading" \in P \ {"shut"} /\ "out" \in P
  BY <1>2
<1>8. /\ Run(P, a, l, "out", "reading") /\ Run(P, b, l, "reading", "out")
      /\ a \in Seq(Steps) /\ b \in Seq(Steps)
      /\ \A m \in Locks \ {l} : \A i \in 1..Len(a) : ~ On(a[i], m)
      /\ \A m \in Locks \ {l} : \A i \in 1..Len(b) : ~ On(b[i], m)
  BY <1>3, <1>4, <1>5, <1>6 DEF a, b
<1>9. /\ a \o inner \o b \in Seq(Steps)
      /\ Run(P, a \o inner \o b, l, "out", "out")
      /\ \A m \in Locks \ {l} : Run(P, a \o inner \o b, m, "out", "out")
      /\ \A m \in Locks \ (U \cup {l}) : \A i \in 1..Len(a \o inner \o b) :
            ~ On((a \o inner \o b)[i], m)
  BY <1>1, <1>7, <1>8, SectionRuns
<1>10. Reading(l, inner) = a \o inner \o b
  BY DEF Reading, a, b
<1> QED
  BY <1>9, <1>10 DEF Rests

\* lock and unlock of a mutex.
LEMMA LockingRests ==
    ASSUME NEW P, Quiet \subseteq P, NEW l \in Mutexes, NEW inner, NEW U, l \notin U,
           Rests(P, inner, U)
    PROVE  Rests(P, Locking(l, inner), U \cup {l})
<1>1. l \in Locks /\ l \notin Shared /\ "reserve" \in LockSteps /\ "free" \in LockSteps
  BY DEF Locks, LockSteps, Shared, Maps, Named, Mutexes
<1>2. {"out", "in"} \subseteq P
  BY PhaseFacts
<1> DEFINE a == Step("reserve", l)
           b == Step("free", l)
<1>3. Run(P, a, l, "out", "in")
  <2>1. Moves([do |-> "reserve", of |-> l], l, "out", "in")
    BY <1>1 DEF Moves, On, Opens
  <2> QED
    BY <1>2, <2>1, RunOne DEF Step
<1>4. Run(P, b, l, "in", "out")
  <2>1. Moves([do |-> "free", of |-> l], l, "in", "out")
    BY <1>1 DEF Moves, On, Closes
  <2> QED
    BY <1>2, <2>1, RunOne DEF Step
<1>5. /\ a \in Seq(Steps) /\ b \in Seq(Steps)
      /\ \A m \in Locks \ {l} : \A i \in 1..Len(a) : ~ On(a[i], m)
      /\ \A m \in Locks \ {l} : \A i \in 1..Len(b) : ~ On(b[i], m)
  BY <1>1, LockStep
<1>6. "in" \in P \ {"shut"} /\ "out" \in P
  BY <1>2
<1>7. Locking(l, inner) = a \o inner \o b
  BY DEF Locking
<1> HIDE DEF a, b
<1>8. /\ a \o inner \o b \in Seq(Steps)
      /\ Run(P, a \o inner \o b, l, "out", "out")
      /\ \A m \in Locks \ {l} : Run(P, a \o inner \o b, m, "out", "out")
      /\ \A m \in Locks \ (U \cup {l}) : \A i \in 1..Len(a \o inner \o b) :
            ~ On((a \o inner \o b)[i], m)
  BY <1>1, <1>3, <1>4, <1>5, <1>6, SectionRuns
<1> QED
  BY <1>7, <1>8 DEF Rests

\* lock and unlock of a shared mutex; where there may be handles, the map is clear of
\* those of the thread afterwards.
LEMMA WritingRuns ==
    ASSUME NEW P, Quiet \subseteq P, NEW l \in Shared, NEW inner, NEW U, l \notin U,
           Rests(P, inner, U), NEW q \in P \cap {"out", "clear"}
    PROVE  /\ Writing(l, inner) \in Seq(Steps)
           /\ Run(P, Writing(l, inner), l, "out", q)
           /\ \A m \in Locks \ {l} : Run(P, Writing(l, inner), m, "out", "out")
           /\ \A m \in Locks \ (U \cup {l}) : \A i \in 1..Len(Writing(l, inner)) :
                 ~ On(Writing(l, inner)[i], m)
<1>1. l \in Locks /\ "reserve" \in LockSteps /\ "drain" \in LockSteps /\ "free" \in LockSteps
  BY DEF Locks, LockSteps
<1>2. {"out", "shut", "in"} \subseteq P
  BY PhaseFacts
<1> DEFINE a1 == Step("reserve", l)
           a2 == Step("drain", l)
           a  == a1 \o a2
           b  == Step("free", l)
<1>3. Run(P, a1, l, "out", "shut") /\ Run(P, a2, l, "shut", "in")
  <2>1. Moves([do |-> "reserve", of |-> l], l, "out", "shut")
    BY <1>1 DEF Moves, On, Opens
  <2>2. Moves([do |-> "drain", of |-> l], l, "shut", "in")
    BY <1>1 DEF Moves, On
  <2> QED
    BY <1>2, <2>1, <2>2, RunOne DEF Step
<1>4. Run(P, b, l, "in", q)
  <2>1. Moves([do |-> "free", of |-> l], l, "in", q)
    BY <1>1 DEF Moves, On, Closes
  <2> QED
    BY <1>2, <2>1, RunOne DEF Step
<1>5. /\ a1 \in Seq(Steps) /\ a2 \in Seq(Steps) /\ b \in Seq(Steps)
      /\ \A m \in Locks \ {l} : \A i \in 1..Len(b) : ~ On(b[i], m)
  BY <1>1, LockStep
<1>6. a \in Seq(Steps) /\ \A m \in Locks \ {l} : \A i \in 1..Len(a) : ~ On(a[i], m)
  <2>1. a \in Seq(Steps)
    BY <1>5
  <2>2. Len(a) = 2 /\ a[1] = [do |-> "reserve", of |-> l] /\ a[2] = [do |-> "drain", of |-> l]
    BY DEF Step
  <2> HIDE DEF a
  <2> QED
    BY <2>1, <2>2 DEF On
<1>7. "in" \in P \ {"shut"} /\ q \in P
  BY <1>2
<1>8. Writing(l, inner) = a \o inner \o b
  BY DEF Writing
<1> HIDE DEF a1, a2, b
<1>9. Run(P, a, l, "out", "in")
  BY <1>3, <1>5, RunThen
<1> HIDE DEF a
<1>10. /\ a \o inner \o b \in Seq(Steps)
       /\ Run(P, a \o inner \o b, l, "out", q)
       /\ \A m \in Locks \ {l} : Run(P, a \o inner \o b, m, "out", "out")
       /\ \A m \in Locks \ (U \cup {l}) : \A i \in 1..Len(a \o inner \o b) :
             ~ On((a \o inner \o b)[i], m)
  BY <1>1, <1>4, <1>5, <1>6, <1>7, <1>9, SectionRuns
<1> QED
  BY <1>8, <1>10

\* A writer rests.
LEMMA WritingRests ==
    ASSUME NEW P, Quiet \subseteq P, NEW l \in Shared, NEW inner, NEW U, l \notin U,
           Rests(P, inner, U)
    PROVE  Rests(P, Writing(l, inner), U \cup {l})
<1>1. "out" \in P \cap {"out", "clear"}
  BY PhaseFacts
<1>2. /\ Writing(l, inner) \in Seq(Steps)
      /\ Run(P, Writing(l, inner), l, "out", "out")
      /\ \A m \in Locks \ {l} : Run(P, Writing(l, inner), m, "out", "out")
      /\ \A m \in Locks \ (U \cup {l}) : \A i \in 1..Len(Writing(l, inner)) :
            ~ On(Writing(l, inner)[i], m)
  BY <1>1, WritingRuns
<1> QED
  BY <1>2 DEF Rests

\* A call that inserts into a map, does something else, and returns a handle.
LEMMA InsertionRests ==
    ASSUME NEW l \in Shared, NEW other, NEW U, l \notin U, Rests(Phases, other, U)
    PROVE  /\ Rests(Phases, Writing(l, <<>>) \o other \o Handle(l), U \cup {l})
           /\ Rests(Phases, Writing(l, <<>>) \o Handle(l), {l})
<1>1. l \in Locks /\ "read" \in LockSteps /\ "keep" \in LockSteps
  BY DEF Locks, LockSteps
<1> DEFINE a == Writing(l, <<>>)
           b1 == Step("read", l)
           b2 == Step("keep", l)
           b == Handle(l)
<1>2. Rests(Phases, <<>>, {})
  BY NothingRests, RestsMore
<1>3. /\ a \in Seq(Steps)
      /\ Run(Phases, a, l, "out", "clear")
      /\ \A m \in Locks \ {l} : \A i \in 1..Len(a) : ~ On(a[i], m)
  <2>1. "clear" \in Phases \cap {"out", "clear"} /\ l \notin {} /\ {} \cup {l} = {l}
    BY PhaseFacts
  <2> QED
    BY <1>2, <2>1, WritingRuns, PhaseFacts
<1>4. Run(Phases, b1, l, "clear", "holding") /\ Run(Phases, b2, l, "holding", "out")
  <2>1. Moves([do |-> "read", of |-> l], l, "clear", "holding")
    BY <1>1 DEF Moves, On, Opens
  <2>2. Moves([do |-> "keep", of |-> l], l, "holding", "out")
    BY <1>1 DEF Moves, On, Closes
  <2> QED
    BY <2>1, <2>2, RunOne, PhaseFacts DEF Step
<1>5. b1 \in Seq(Steps) /\ b2 \in Seq(Steps)
  BY <1>1, LockStep
<1>6. b \in Seq(Steps) /\ \A m \in Locks \ {l} : \A i \in 1..Len(b) : ~ On(b[i], m)
  <2>1. b \in Seq(Steps)
    BY <1>5 DEF Handle
  <2>2. Len(b) = 2 /\ b[1] = [do |-> "read", of |-> l] /\ b[2] = [do |-> "keep", of |-> l]
    BY DEF Step, Handle
  <2> HIDE DEF b
  <2> QED
    BY <2>1, <2>2 DEF On
<1> HIDE DEF a, b1, b2
<1>7. Run(Phases, b, l, "clear", "out")
  BY <1>4, <1>5, RunThen DEF Handle, b1, b2
<1> HIDE DEF b
<1>8. "clear" \in Phases \ {"shut"} /\ "out" \in Phases
  BY PhaseFacts
<1>9. ASSUME NEW mid, NEW V, l \notin V, Rests(Phases, mid, V)
      PROVE  Rests(Phases, a \o mid \o b, V \cup {l})
  <2>1. /\ a \o mid \o b \in Seq(Steps)
        /\ Run(Phases, a \o mid \o b, l, "out", "out")
        /\ \A m \in Locks \ {l} : Run(Phases, a \o mid \o b, m, "out", "out")
        /\ \A m \in Locks \ (V \cup {l}) : \A i \in 1..Len(a \o mid \o b) :
              ~ On((a \o mid \o b)[i], m)
    BY <1>1, <1>3, <1>6, <1>7, <1>8, <1>9, SectionRuns, PhaseFacts
  <2> QED
    BY <2>1 DEF Rests
<1>10. Rests(Phases, a \o other \o b, U \cup {l})
  BY <1>9
<1>11. Rests(Phases, a \o b, {l})
  <2>1. Rests(Phases, a \o <<>> \o b, {} \cup {l})
    BY <1>2, <1>9
  <2>2. a \o <<>> = a
    BY <1>3
  <2>3. Rests(Phases, a \o b, {} \cup {l})
    BY <2>1, <2>2
  <2> QED
    BY <2>3
<1> QED
  BY <1>10, <1>11 DEF a, b

-----------------------------------------------------------------------------
(***************************************************************************)
(* Every task and every call rests.                                        *)
(***************************************************************************)

\* The parts that tasks and calls have in common.
LEMMA PartsRest ==
    /\ Rests(Quiet, Locking("device", <<>>), {"device"})
    /\ \A heaps \in {"rtvHeaps", "srvHeaps"} :
          Rests(Quiet, Descriptor(heaps), {"device", heaps})
    /\ \A map \in Maps : Rests(Quiet, Reading(map, <<>>), {map})
<1> USE NothingRests
<1>1. Rests(Quiet, Locking("device", <<>>), {} \cup {"device"})
  BY LockingRests DEF Mutexes
<1>2. ASSUME NEW heaps \in {"rtvHeaps", "srvHeaps"}
      PROVE  Rests(Quiet, Descriptor(heaps), ({} \cup {"device"}) \cup {heaps})
  BY <1>1, LockingRests DEF Mutexes, Descriptor
<1>3. ASSUME NEW map \in Maps PROVE Rests(Quiet, Reading(map, <<>>), {} \cup {map})
  BY ReadingRests DEF Shared
<1>4. {} \cup {"device"} = {"device"}
      /\ \A heaps : ({} \cup {"device"}) \cup {heaps} = {"device", heaps}
      /\ \A map : {} \cup {map} = {map}
  OBVIOUS
<1> QED
  BY <1>1, <1>2, <1>3, <1>4

\* Tasks take each lock by the rules and get no handle.
LEMMA TaskRests ==
    ASSUME NEW task \in Tasks
    PROVE  \E U : Rests(Quiet, Task(task), U)
<1>1. \A map \in Maps : Rests(Quiet, Reading(map, <<>>), {map})
  BY PartsRest
<1>2. Rests(Quiet, Locking("device", <<>>), {"device"})
  BY PartsRest
<1>3. Rests(Quiet, Recording, {"pipelineStates"} \cup {"device"})
  BY <1>1, <1>2, ThenRests DEF Recording, GetPipelineState, Maps
<1>4. CASE task = "command"
  <2>1. \A map \in Maps : Rests(Quiet, Step("look", map), {})
    <3> TAKE map \in Maps
    <3>1. "look" \notin LockSteps /\ [do |-> "look", of |-> map] \in Steps
      BY DEF LockSteps, Steps
    <3> QED
      BY <3>1, OtherRests
  <2> DEFINE d == Descriptor("rtvHeaps")
             r == Reading("constantBuffers", <<>>)
  <2>2. Rests(Quiet, Step("look", "textures"), {}) /\ Rests(Quiet, Step("look", "rootSignatures"), {})
        /\ Rests(Quiet, Step("look", "vertexBuffers"), {})
    BY <2>1 DEF Maps, Named
  <2>3. Rests(Quiet, d, {"device", "rtvHeaps"}) /\ Rests(Quiet, r, {"constantBuffers"})
    BY PartsRest DEF Maps, Named
  <2>4. BuildCommand = Step("look", "textures") \o d \o Step("look", "rootSignatures") \o r
                          \o Step("look", "vertexBuffers")
    BY DEF BuildCommand
  <2> HIDE DEF d, r
  <2>5. \E U : Rests(Quiet, Step("look", "textures") \o d, U)
    BY <2>2, <2>3, ThenRests
  <2>6. \E U : Rests(Quiet, Step("look", "textures") \o d \o Step("look", "rootSignatures"), U)
    BY <2>2, <2>5, ThenRests
  <2>7. \E U : Rests(Quiet, Step("look", "textures") \o d \o Step("look", "rootSignatures") \o r, U)
    BY <2>3, <2>6, ThenRests
  <2>8. \E U : Rests(Quiet, BuildCommand, U)
    BY <2>2, <2>4, <2>7, ThenRests
  <2>9. Task(task) = Recording \o BuildCommand
    BY <1>4 DEF Task, Record
  <2>10. \E U : Rests(Quiet, Recording \o BuildCommand, U)
    BY <1>3, <2>8, ThenRests
  <2> QED
    BY <2>9, <2>10
<1>5. CASE task = "upload"
  <2>1. Task(task) = Recording \o Locking("device", <<>>)
    BY <1>5 DEF Task, Record
  <2>2. \E U : Rests(Quiet, Recording \o Locking("device", <<>>), U)
    BY <1>2, <1>3, ThenRests
  <2> QED
    BY <2>1, <2>2
<1>6. CASE task = "destroyMain"
  <2>1. Task(task) = Recording \o Reading("textures", <<>>)
    BY <1>6 DEF Task, Record, GetObject
  <2>2. "textures" \in Maps
    BY DEF Maps
  <2>3. \E U : Rests(Quiet, Recording \o Reading("textures", <<>>), U)
    BY <1>1, <1>3, <2>2, ThenRests
  <2> QED
    BY <2>1, <2>3
<1>7. CASE task = "destroyDone"
  <2>1. Rests(Quiet, Locking("rtvHeaps", <<>>), {} \cup {"rtvHeaps"})
    BY LockingRests, NothingRests DEF Mutexes
  <2>2. "textures" \notin {} \cup {"rtvHeaps"} /\ "textures" \in Shared
    BY DEF Shared, Maps
  <2>3. Rests(Quiet, Writing("textures", Locking("rtvHeaps", <<>>)),
                     ({} \cup {"rtvHeaps"}) \cup {"textures"})
    BY <2>1, <2>2, WritingRests
  <2>4. Task(task) = Writing("textures", Locking("rtvHeaps", <<>>))
    BY <1>7 DEF Task
  <2> QED
    BY <2>3, <2>4
<1>8. CASE task = "compileMain"
  <2> DEFINE both == Reading("rootSignatures", <<>>) \o Reading("inputLayouts", <<>>)
  <2>1. Rests(Quiet, both, {"rootSignatures"} \cup {"inputLayouts"})
    BY <1>1, ThenRests DEF Maps, Named
  <2>2. "pipelineStates" \notin {"rootSignatures"} \cup {"inputLayouts"}
        /\ "pipelineStates" \in Shared
    BY DEF Shared, Maps
  <2>3. Task(task) = Reading("pipelineStates", both)
    BY <1>8 DEF Task
  <2> HIDE DEF both
  <2>4. Rests(Quiet, Reading("pipelineStates", both),
              ({"rootSignatures"} \cup {"inputLayouts"}) \cup {"pipelineStates"})
    BY <2>1, <2>2, ReadingRests
  <2> QED
    BY <2>3, <2>4
<1> QED
  BY <1>4, <1>5, <1>6, <1>7, <1>8 DEF Tasks

\* What submits or waits for the workers takes no lock for it.
LEMMA PlainSteps ==
    /\ \A task \in Tasks : /\ Rests(Quiet, Step("submit", task), {})
                           /\ Rests(Quiet, Step("later", task), {})
    /\ \A do \in {"park", "clear", "open", "swap"} : Rests(Quiet, Step(do, ""), {})
<1>1. ASSUME NEW task \in Tasks, NEW do \in {"submit", "later"}
      PROVE  Rests(Quiet, Step(do, task), {})
  <2>1. do \notin LockSteps /\ [do |-> do, of |-> task] \in Steps
    BY DEF LockSteps, Steps
  <2> QED
    BY <2>1, OtherRests
<1>2. ASSUME NEW do \in {"park", "clear", "open", "swap"}
      PROVE  Rests(Quiet, Step(do, ""), {})
  <2>1. do \notin LockSteps /\ [do |-> do, of |-> ""] \in Steps
    BY DEF LockSteps, Steps
  <2> QED
    BY <2>1, OtherRests
<1> QED
  BY <1>1, <1>2

\* Calls that return no handle are as quiet as tasks.
LEMMA QuietCallRests ==
    ASSUME NEW op \in Operations \ {"createConstantBuffer", "createInputLayout",
                                    "createRootSignature"}
    PROVE  \E U : Rests(Quiet, Script(op), U)
<1> USE PartsRest, PlainSteps, NothingRests
<1>1. CASE op = "createPipelineState"
  <2>1. Rests(Quiet, Writing("pipelineStates", <<>>), {} \cup {"pipelineStates"})
    BY WritingRests DEF Shared, Maps
  <2>2. Script(op) = Writing("pipelineStates", <<>>)
    BY <1>1 DEF Script
  <2> QED
    BY <2>1, <2>2
<1>2. CASE op = "compile"
  <2> DEFINE s == Reading("pipelineStates", Step("submit", "compileMain"))
             r == Reading("rootSignatures", <<>>)
             d == Locking("device", r \o s)
  <2>1. Rests(Quiet, s, {} \cup {"pipelineStates"})
    <3>1. "pipelineStates" \in Shared /\ "pipelineStates" \notin {}
          /\ Rests(Quiet, Step("submit", "compileMain"), {})
      BY DEF Shared, Maps, Tasks
    <3> QED
      BY <3>1, ReadingRests
  <2>2. Rests(Quiet, r, {"rootSignatures"})
    BY DEF Maps, Named
  <2> HIDE DEF s, r
  <2>3. Rests(Quiet, r \o s, {"rootSignatures"} \cup ({} \cup {"pipelineStates"}))
    BY <2>1, <2>2, ThenRests
  <2>4. Rests(Quiet, d, ({"rootSignatures"} \cup ({} \cup {"pipelineStates"})) \cup {"device"})
    <3>1. "device" \in Mutexes /\ "device" \notin {"rootSignatures"} \cup ({} \cup {"pipelineStates"})
      BY DEF Mutexes
    <3> QED
      BY <2>3, <3>1, LockingRests
  <2>5. Script(op) = Reading("renderer", d)
    BY <1>2 DEF Script, CompileStates, r, s
  <2> HIDE DEF d
  <2>6. "renderer" \in Shared
        /\ "renderer" \notin ({"rootSignatures"} \cup ({} \cup {"pipelineStates"})) \cup {"device"}
    BY DEF Shared
  <2>7. \E U : Rests(Quiet, Reading("renderer", d), U)
    BY <2>4, <2>6, ReadingRests
  <2> QED
    BY <2>5, <2>7
<1>3. ASSUME NEW map \in {"textures", "vertexBuffers"}, NEW tasks, Rests(Quiet, tasks, {})
      PROVE  \E U : Rests(Quiet, CreateObject(map, tasks), U)
  <2> DEFINE w == Writing(map, tasks)
             g == GetObject(map)
  <2>1. map \in Maps /\ map \in Shared /\ map # "renderer"
    BY DEF Maps, Shared
  <2>2. Rests(Quiet, w, {} \cup {map})
    BY <1>3, <2>1, WritingRests
  <2>3. Rests(Quiet, g, {map})
    BY <2>1 DEF GetObject
  <2> HIDE DEF w, g
  <2>4. Rests(Quiet, w \o g, ({} \cup {map}) \cup {map})
    BY <2>2, <2>3, ThenRests
  <2>5. "renderer" \in Shared /\ "renderer" \notin ({} \cup {map}) \cup {map}
    BY <2>1 DEF Shared
  <2>6. \E U : Rests(Quiet, Reading("renderer", w \o g), U)
    BY <2>4, <2>5, ReadingRests
  <2> QED
    BY <2>6 DEF CreateObject, w, g
<1>4. CASE op = "createTexture"
  <2>1. Script(op) = CreateObject("textures", <<>>)
    BY <1>4 DEF Script
  <2> QED
    BY <1>3, <2>1
<1>5. CASE op = "createBuffer"
  <2>1. Script(op) = CreateObject("vertexBuffers", Step("submit", "upload"))
    BY <1>5 DEF Script
  <2>2. Rests(Quiet, Step("submit", "upload"), {})
    BY DEF Tasks
  <2> QED
    BY <1>3, <2>1, <2>2
<1>6. CASE op = "destroyTexture"
  <2>1. Script(op) = Step("submit", "destroyMain") \o Step("later", "destroyDone")
    BY <1>6 DEF Script
  <2>2. Rests(Quiet, Step("submit", "destroyMain"), {}) /\ Rests(Quiet, Step("later", "destroyDone"), {})
    BY DEF Tasks
  <2>3. \E U : Rests(Quiet, Step("submit", "destroyMain") \o Step("later", "destroyDone"), U)
    BY <2>2, ThenRests
  <2> QED
    BY <2>1, <2>3
<1>7. CASE op = "command"
  <2>1. Script(op) = Step("submit", "command") /\ "command" \in Tasks
    BY <1>7 DEF Script, Tasks
  <2> QED
    BY <2>1
<1>8. CASE op = "present"
  <2>1. Rests(Quiet, Step("park", "") \o Step("swap", ""), {} \cup {})
    BY ThenRests
  <2>2. "renderer" \in Shared /\ "renderer" \notin {} \cup {}
    BY DEF Shared
  <2>3. \E U : Rests(Quiet, Writing("renderer", Step("park", "") \o Step("swap", "")), U)
    BY <2>1, <2>2, WritingRests
  <2>4. Script(op) = Writing("renderer", Step("park", "") \o Step("swap", ""))
    BY <1>8 DEF Script
  <2> QED
    BY <2>3, <2>4
<1>9. CASE op = "resize"
  <2> DEFINE g == GetObject("textures")
             pc == Step("park", "") \o Step("clear", "")
  <2>1. Rests(Quiet, g, {"textures"})
    BY DEF GetObject, Maps
  <2>2. Rests(Quiet, pc, {} \cup {})
    BY ThenRests
  <2>3. Script(op) = Writing("renderer", pc \o g \o Step("open", ""))
    BY <1>9 DEF Script, Resize
  <2>4. Rests(Quiet, Step("open", ""), {})
    OBVIOUS
  <2> HIDE DEF g, pc
  <2>5. Rests(Quiet, pc \o g, ({} \cup {}) \cup {"textures"})
    BY <2>1, <2>2, ThenRests
  <2>6. Rests(Quiet, pc \o g \o Step("open", ""), (({} \cup {}) \cup {"textures"}) \cup {})
    BY <2>4, <2>5, ThenRests
  <2>7. "renderer" \in Shared /\ "renderer" \notin (({} \cup {}) \cup {"textures"}) \cup {}
    BY DEF Shared
  <2>8. \E U : Rests(Quiet, Writing("renderer", pc \o g \o Step("open", "")), U)
    BY <2>6, <2>7, WritingRests
  <2> QED
    BY <2>3, <2>8
<1> QED
  BY <1>1, <1>2, <1>4, <1>5, <1>6, <1>7, <1>8, <1>9 DEF Operations

\* Calls take each lock by the rules, and keep one only of a map they were alone in.
LEMMA CallRests ==
    ASSUME NEW op \in Operations
    PROVE  \E U : Rests(Phases, Script(op), U)
<1>1. CASE op = "createConstantBuffer"
  <2> DEFINE w == Writing("constantBuffers", <<>>)
             d == Descriptor("srvHeaps")
             k == Locking("device", <<>>)
             h == Handle("constantBuffers")
  <2>1. Rests(Phases, d, {"device", "srvHeaps"}) /\ Rests(Phases, k, {"device"})
    BY PartsRest, RestsMore
  <2>2. Script(op) = w \o d \o k \o h
    BY <1>1 DEF Script, CreateConstantBuffer
  <2>3. "constantBuffers" \in Shared
        /\ "constantBuffers" \notin {"device", "srvHeaps"} \cup {"device"}
    BY DEF Shared, Maps, Named
  <2> HIDE DEF d, k
  <2>4. Rests(Phases, d \o k, {"device", "srvHeaps"} \cup {"device"})
    BY <2>1, ThenRests
  <2>5. \E U : Rests(Phases, w \o (d \o k) \o h, U)
    BY <2>3, <2>4, InsertionRests
  <2>6. (w \o d) \o k = w \o (d \o k)
    <3>1. w \in Seq(Steps)
      <4>1. "out" \in Quiet \cap {"out", "clear"} /\ "constantBuffers" \notin {}
        BY PhaseFacts
      <4> QED
        BY <2>3, <4>1, WritingRuns, NothingRests
    <3>2. d \in Seq(Steps) /\ k \in Seq(Steps)
      BY <2>1 DEF Rests
    <3> HIDE DEF w
    <3> QED
      BY <3>1, <3>2, ConcatAssociative
  <2> QED
    BY <2>2, <2>5, <2>6
<1>2. ASSUME NEW map \in Named PROVE \E U : Rests(Phases, Writing(map, <<>>) \o Handle(map), U)
  <2>1. map \in Shared /\ map \notin {} /\ Rests(Phases, <<>>, {})
    BY NothingRests, RestsMore DEF Shared, Maps
  <2> QED
    BY <2>1, InsertionRests
<1>3. CASE op = "createInputLayout"
  <2>1. Script(op) = Writing("inputLayouts", <<>>) \o Handle("inputLayouts")
    BY <1>3 DEF Script
  <2> QED
    BY <1>2, <2>1 DEF Named
<1>4. CASE op = "createRootSignature"
  <2>1. Script(op) = Writing("rootSignatures", <<>>) \o Handle("rootSignatures")
    BY <1>4 DEF Script
  <2> QED
    BY <1>2, <2>1 DEF Named
<1>5. CASE op \notin {"createConstantBuffer", "createInputLayout", "createRootSignature"}
  BY <1>5, QuietCallRests, RestsMore
<1> QED
  BY <1>1, <1>3, <1>4, <1>5

-----------------------------------------------------------------------------
(***************************************************************************)
(* The inductive invariant: each thread is in some phase of each lock, has *)
(* of it what the phase says, and what it has still to do starts there.    *)
(***************************************************************************)
TypeOK ==
    /\ todo \in [Threads -> Seq(Steps)]
    /\ readers \in [Shared -> [Threads -> Nat]]
    /\ writer \in [Locks -> {{}} \cup {{t} : t \in Threads}]
    /\ handles \in [Clients -> SUBSET Shared]
    /\ queue \in [Slots -> Seq(Tasks)]

PhasesOf(t) == IF t \in Clients THEN Phases ELSE Quiet

Kept(t, l)  == t \in Clients /\ l \in handles[t]
Count(t, l) == IF Kept(t, l) THEN 1 ELSE 0

\* What a thread in phase p of lock l has of it.
Has(t, l, p) ==
    /\ p \in {"shut", "in"} <=> t \in writer[l]
    /\ p \in {"reading", "holding", "clear", "shut"} => l \in Shared
    /\ l \in Shared =>
          readers[l][t] = Count(t, l) + (IF p \in {"reading", "holding"} THEN 1 ELSE 0)
    /\ p = "in" /\ l \in Shared => \A u \in Threads : readers[l][u] = 0
    /\ p \in {"clear", "holding"} => ~ Kept(t, l)

InPhase(t, l) == \E p \in PhasesOf(t) : Has(t, l, p) /\ Run(PhasesOf(t), todo[t], l, p, "out")

IInv == TypeOK /\ \A t \in Threads, l \in Locks : InPhase(t, l)

\* Where the next step of t leads.
Leads(t, l, p, q) == Has(t, l, p) /\ Moves(Next1(t), l, p, q)

-----------------------------------------------------------------------------
\* Before a thread goes on, its next step leads somewhere in each lock.
LEMMA NextLeads ==
    ASSUME IInv, NEW t \in Threads, ~ Idle(t), NEW l \in Locks
    PROVE  \E p, q \in PhasesOf(t) : Leads(t, l, p, q)
                                     /\ Run(PhasesOf(t), Tail(todo[t]), l, q, "out")
<1>1. todo[t] \in Seq(Steps) /\ todo[t] # <<>>
  BY DEF IInv, TypeOK, Idle
<1>2. PICK p \in PhasesOf(t) : Has(t, l, p) /\ Run(PhasesOf(t), todo[t], l, p, "out")
  BY DEF IInv, InPhase
<1>3. PICK q \in PhasesOf(t) : /\ Moves(Head(todo[t]), l, p, q)
                               /\ Run(PhasesOf(t), Tail(todo[t]), l, q, "out")
  BY <1>1, <1>2, RunTail
<1> QED
  BY <1>2, <1>3 DEF Leads, Next1

\* The next step is a step; one of a lock is of a lock there is.
LEMMA NextIsStep ==
    ASSUME TypeOK, NEW t \in Threads, ~ Idle(t)
    PROVE  /\ Next1(t) \in Steps /\ Tail(todo[t]) \in Seq(Steps)
           /\ Next1(t).do \in LockSteps => Next1(t).of \in Locks
           /\ Next1(t).do \in {"submit", "later"} => Next1(t).of \in Tasks
<1>1. todo[t] \in Seq(Steps) /\ todo[t] # <<>>
  BY DEF TypeOK, Idle
<1>2. Head(todo[t]) \in Steps /\ Tail(todo[t]) \in Seq(Steps)
  BY <1>1
<1> QED
  BY <1>2 DEF Next1, Steps, LockSteps

\* Steps that are of no lock.
LEMMA AsideStep ==
    ASSUME TypeOK, NEW t \in Threads, Next1(t).do \notin LockSteps,
           UNCHANGED <<readers, writer, handles>>
    PROVE  /\ \A l \in Locks, p, q \in Phases : Leads(t, l, p, q) => Has(t, l, q)'
           /\ \A l \in Locks, u \in Threads, r \in Phases : Has(u, l, r) => Has(u, l, r)'
  BY DEF Leads, Has, Moves, On, Kept, Count

\* lock_shared.
LEMMA ReadStep ==
    ASSUME TypeOK, NEW t \in Threads, ~ Idle(t), Read(t),
           \A l \in Locks : \E p, q \in Phases : Leads(t, l, p, q)
    PROVE  /\ readers' \in [Shared -> [Threads -> Nat]]
           /\ \A l \in Locks, p, q \in Phases : Leads(t, l, p, q) => Has(t, l, q)'
           /\ \A l \in Locks, u \in Threads \ {t}, r \in Phases : Has(u, l, r) => Has(u, l, r)'
<1> DEFINE k == Lock(t)
<1>1. /\ Next1(t).do = "read" /\ k = Next1(t).of /\ k \in Locks
      /\ writer[k] = {} /\ readers' = [readers EXCEPT ![k][t] = @ + 1]
      /\ UNCHANGED <<writer, handles>>
  BY NextIsStep DEF Read, At, Lock, LockSteps
<1>2. k \in Shared
  <2>1. PICK p \in Phases, q \in Phases : Leads(t, k, p, q)
    BY <1>1
  <2> QED
    BY <1>1, <2>1 DEF Leads, Moves, On, Opens, Closes, LockSteps
<1> HIDE DEF k
<1>3. /\ \A l \in Shared, u \in Threads :
            readers'[l][u] = IF l = k /\ u = t THEN readers[l][u] + 1 ELSE readers[l][u]
      /\ readers' \in [Shared -> [Threads -> Nat]]
  BY <1>1, <1>2 DEF TypeOK
<1>4. \A u \in Threads, l \in Locks : Kept(u, l)' = Kept(u, l) /\ Count(u, l)' = Count(u, l)
  BY <1>1 DEF Kept, Count
<1>5. ASSUME NEW l \in Locks, NEW p \in Phases, NEW q \in Phases, Leads(t, l, p, q)
      PROVE  Has(t, l, q)'
  <2>1. CASE l = k
    <3>1. p \in {"out", "clear"} /\ q \in {"reading", "holding"}
          /\ (q = "holding" => p = "clear")
      BY <1>1, <1>5, <2>1 DEF Leads, Moves, On, Opens, Closes, LockSteps
    <3>2. readers[k][t] = Count(t, k) /\ t \notin writer'[k] /\ (p = "clear" => ~ Kept(t, k))
      BY <1>1, <1>2, <1>5, <2>1, <3>1 DEF Leads, Has, Count
    <3> QED
      BY <1>1, <1>2, <1>3, <1>4, <2>1, <3>1, <3>2 DEF Has, Count
  <2>2. CASE l # k
    <3>1. p = q /\ Has(t, l, p)
      BY <1>1, <1>5, <2>2 DEF Leads, Moves, On
    <3> QED
      BY <1>1, <1>3, <1>4, <2>2, <3>1 DEF Has
  <2> QED
    BY <2>1, <2>2
<1>6. ASSUME NEW l \in Locks, NEW u \in Threads \ {t}, NEW r \in Phases, Has(u, l, r)
      PROVE  Has(u, l, r)'
  <2>1. r = "in" => l # k
    BY <1>1, <1>6 DEF Has
  <2> QED
    BY <1>1, <1>3, <1>4, <1>6, <2>1 DEF Has
<1> QED
  BY <1>3, <1>5, <1>6

\* lock, up to where readers are shut out.
LEMMA ReserveStep ==
    ASSUME TypeOK, NEW t \in Threads, ~ Idle(t), Reserve(t)
    PROVE  /\ writer' \in [Locks -> {{}} \cup {{u} : u \in Threads}]
           /\ \A l \in Locks, p, q \in Phases : Leads(t, l, p, q) => Has(t, l, q)'
           /\ \A l \in Locks, u \in Threads \ {t}, r \in Phases : Has(u, l, r) => Has(u, l, r)'
<1> DEFINE k == Lock(t)
<1>1. /\ Next1(t).do = "reserve" /\ k = Next1(t).of /\ k \in Locks
      /\ writer[k] = {} /\ writer' = [writer EXCEPT ![k] = {t}]
      /\ UNCHANGED <<readers, handles>>
  BY NextIsStep DEF Reserve, At, Lock, LockSteps
<1> HIDE DEF k
<1>2. /\ \A l \in Locks : writer'[l] = IF l = k THEN {t} ELSE writer[l]
      /\ writer' \in [Locks -> {{}} \cup {{u} : u \in Threads}]
  BY <1>1 DEF TypeOK
<1>3. \A u \in Threads, l \in Locks : Kept(u, l)' = Kept(u, l) /\ Count(u, l)' = Count(u, l)
  BY <1>1 DEF Kept, Count
<1>4. ASSUME NEW l \in Locks, NEW p \in Phases, NEW q \in Phases, Leads(t, l, p, q)
      PROVE  Has(t, l, q)'
  <2>1. CASE l = k
    <3>1. p \in {"out", "clear"} /\ q = IF l \in Shared THEN "shut" ELSE "in"
      BY <1>1, <1>4, <2>1 DEF Leads, Moves, On, Opens, Closes, LockSteps
    <3>2. l \in Shared => readers[l][t] = Count(t, l)
      BY <1>4, <3>1 DEF Leads, Has, Count
    <3>3. l \in Shared => readers'[l][t] = Count(t, l)'
      BY <1>1, <1>3, <3>2
    <3> QED
      BY <1>1, <1>2, <2>1, <3>1, <3>3 DEF Has, Count
  <2>2. CASE l # k
    <3>1. p = q /\ Has(t, l, p)
      BY <1>1, <1>4, <2>2 DEF Leads, Moves, On
    <3> QED
      BY <1>1, <1>2, <1>3, <2>2, <3>1 DEF Has
  <2> QED
    BY <2>1, <2>2
<1>5. ASSUME NEW l \in Locks, NEW u \in Threads \ {t}, NEW r \in Phases, Has(u, l, r)
      PROVE  Has(u, l, r)'
  BY <1>1, <1>2, <1>3, <1>5 DEF Has
<1> QED
  BY <1>2, <1>4, <1>5

\* lock, after the last reader.
LEMMA DrainStep ==
    ASSUME TypeOK, NEW t \in Threads, ~ Idle(t), Drain(t)
    PROVE  /\ \A l \in Locks, p, q \in Phases : Leads(t, l, p, q) => Has(t, l, q)'
           /\ \A l \in Locks, u \in Threads, r \in Phases : Has(u, l, r) => Has(u, l, r)'
<1> DEFINE k == Lock(t)
<1>1. /\ Next1(t).do = "drain" /\ k = Next1(t).of /\ k \in Locks
      /\ \A u \in Threads : readers[k][u] = 0
      /\ UNCHANGED <<readers, writer, handles>>
  BY NextIsStep DEF Drain, Drained, At, Lock, LockSteps
<1> HIDE DEF k
<1>2. \A u \in Threads, l \in Locks : Kept(u, l)' = Kept(u, l) /\ Count(u, l)' = Count(u, l)
  BY <1>1 DEF Kept, Count
<1>3. ASSUME NEW l \in Locks, NEW p \in Phases, NEW q \in Phases, Leads(t, l, p, q)
      PROVE  Has(t, l, q)'
  <2>1. CASE l = k
    <3>1. p = "shut" /\ q = "in" /\ l \in Shared
      BY <1>1, <1>3, <2>1 DEF Leads, Moves, On, Opens, Closes, LockSteps
    <3> QED
      BY <1>1, <1>2, <1>3, <2>1, <3>1 DEF Leads, Has
  <2>2. CASE l # k
    <3>1. p = q /\ Has(t, l, p)
      BY <1>1, <1>3, <2>2 DEF Leads, Moves, On
    <3> QED
      BY <1>1, <1>2, <3>1 DEF Has
  <2> QED
    BY <2>1, <2>2
<1>4. ASSUME NEW l \in Locks, NEW u \in Threads, NEW r \in Phases, Has(u, l, r)
      PROVE  Has(u, l, r)'
  BY <1>1, <1>2, <1>4 DEF Has
<1> QED
  BY <1>3, <1>4

\* unlock and unlock_shared.
LEMMA FreeStep ==
    ASSUME TypeOK, NEW t \in Threads, ~ Idle(t), Free(t),
           \A l \in Locks : \E p, q \in Phases : Leads(t, l, p, q)
    PROVE  /\ readers' \in [Shared -> [Threads -> Nat]]
           /\ writer' \in [Locks -> {{}} \cup {{u} : u \in Threads}]
           /\ \A l \in Locks, p, q \in Phases : Leads(t, l, p, q) => Has(t, l, q)'
           /\ \A l \in Locks, u \in Threads \ {t}, r \in Phases : Has(u, l, r) => Has(u, l, r)'
<1> DEFINE k == Lock(t)
<1>1. /\ Next1(t).do = "free" /\ k = Next1(t).of /\ k \in Locks
      /\ IF t \in writer[k]
         THEN writer' = [writer EXCEPT ![k] = {}] /\ UNCHANGED readers
         ELSE readers' = [readers EXCEPT ![k][t] = @ - 1] /\ UNCHANGED writer
      /\ UNCHANGED handles
  BY NextIsStep DEF Free, At, Lock, LockSteps
<1> HIDE DEF k
<1>2. \A u \in Threads, l \in Locks : Kept(u, l)' = Kept(u, l) /\ Count(u, l)' = Count(u, l)
  BY <1>1 DEF Kept, Count
<1>3. CASE t \in writer[k]
  <2>1. /\ \A l \in Locks : writer'[l] = IF l = k THEN {} ELSE writer[l]
        /\ writer' \in [Locks -> {{}} \cup {{u} : u \in Threads}]
        /\ UNCHANGED readers
    BY <1>1, <1>3 DEF TypeOK
  <2>2. writer[k] = {t}
    <3>1. writer[k] \in {{}} \cup {{u} : u \in Threads}
      BY <1>1 DEF TypeOK
    <3>2. PICK u \in Threads : writer[k] = {u}
      BY <1>3, <3>1
    <3> QED
      BY <1>3, <3>2
  <2>3. ASSUME NEW l \in Locks, NEW p \in Phases, NEW q \in Phases, Leads(t, l, p, q)
        PROVE  Has(t, l, q)'
    <3>1. CASE l = k
      <4>1. p = "in" /\ q \in {"out", "clear"} /\ (q = "clear" => l \in Shared)
        BY <1>1, <1>3, <2>3, <3>1 DEF Leads, Moves, On, Opens, Closes, LockSteps, Has
      <4>2. l \in Shared => readers[l][t] = Count(t, l) /\ ~ Kept(t, l)
        BY <2>3, <4>1 DEF Leads, Has, Count
      <4>3. l \in Shared => readers'[l][t] = Count(t, l)' /\ ~ Kept(t, l)'
        BY <1>2, <2>1, <4>2
      <4> QED
        BY <2>1, <3>1, <4>1, <4>3 DEF Has, Count
    <3>2. CASE l # k
      <4>1. p = q /\ Has(t, l, p)
        BY <1>1, <2>3, <3>2 DEF Leads, Moves, On
      <4> QED
        BY <1>2, <2>1, <3>2, <4>1 DEF Has
    <3> QED
      BY <3>1, <3>2
  <2>4. ASSUME NEW l \in Locks, NEW u \in Threads \ {t}, NEW r \in Phases, Has(u, l, r)
        PROVE  Has(u, l, r)'
    BY <1>2, <2>1, <2>2, <2>4 DEF Has
  <2> QED
    BY <2>1, <2>3, <2>4 DEF TypeOK
<1>4. CASE t \notin writer[k]
  <2>1. PICK p0 \in Phases, q0 \in Phases : Leads(t, k, p0, q0)
    BY <1>1
  <2>2. k \in Shared /\ p0 \in {"reading", "holding"}
    BY <1>1, <1>4, <2>1 DEF Leads, Moves, On, Opens, Closes, LockSteps, Has
  <2>3. readers[k][t] = Count(t, k) + 1 /\ Count(t, k) \in Nat
    BY <2>1, <2>2 DEF Leads, Has, Count
  <2>4. /\ \A l \in Shared, u \in Threads :
              readers'[l][u] = IF l = k /\ u = t THEN readers[l][u] - 1 ELSE readers[l][u]
        /\ readers' \in [Shared -> [Threads -> Nat]]
        /\ UNCHANGED writer
    <3>1. readers' = [readers EXCEPT ![k][t] = @ - 1] /\ UNCHANGED writer
      BY <1>1, <1>4
    <3>2. readers[k][t] - 1 \in Nat
      BY <2>3
    <3> QED
      BY <2>2, <3>1, <3>2 DEF TypeOK
  <2>5. ASSUME NEW l \in Locks, NEW p \in Phases, NEW q \in Phases, Leads(t, l, p, q)
        PROVE  Has(t, l, q)'
    <3>1. CASE l = k
      <4>1. \/ p = "reading" /\ q = "out"
            \/ p = "holding" /\ q = "clear" /\ ~ Kept(t, l)
        BY <1>1, <1>4, <2>5, <3>1 DEF Leads, Moves, On, Opens, Closes, LockSteps, Has
      <4>2. readers'[l][t] = Count(t, l)
        BY <2>2, <2>3, <2>4, <3>1
      <4> QED
        BY <1>2, <1>4, <2>2, <2>4, <3>1, <4>1, <4>2, <2>3 DEF Has
    <3>2. CASE l # k
      <4>1. p = q /\ Has(t, l, p)
        BY <1>1, <2>5, <3>2 DEF Leads, Moves, On
      <4> QED
        BY <1>2, <2>4, <3>2, <4>1 DEF Has
    <3> QED
      BY <3>1, <3>2
  <2>6. ASSUME NEW l \in Locks, NEW u \in Threads \ {t}, NEW r \in Phases, Has(u, l, r)
        PROVE  Has(u, l, r)'
    <3>1. r = "in" => l # k
      BY <2>2, <2>3, <2>6 DEF Has
    <3> QED
      BY <1>2, <2>4, <2>6, <3>1 DEF Has
  <2> QED
    BY <2>4, <2>5, <2>6 DEF TypeOK
<1> QED
  BY <1>3, <1>4

\* The lock moves into the handle.
LEMMA KeepStep ==
    ASSUME TypeOK, NEW t \in Threads, ~ Idle(t), Keep(t),
           \A l \in Locks : \E p, q \in PhasesOf(t) : Leads(t, l, p, q)
    PROVE  /\ handles' \in [Clients -> SUBSET Shared]
           /\ \A l \in Locks, p, q \in Phases : Leads(t, l, p, q) => Has(t, l, q)'
           /\ \A l \in Locks, u \in Threads \ {t}, r \in Phases : Has(u, l, r) => Has(u, l, r)'
<1> DEFINE k == Lock(t)
<1>1. /\ Next1(t).do = "keep" /\ k = Next1(t).of /\ k \in Locks
      /\ handles' = [handles EXCEPT ![t] = @ \cup {k}]
      /\ UNCHANGED <<readers, writer>>
  BY NextIsStep DEF Keep, Transferred, At, Lock, LockSteps
<1> HIDE DEF k
<1>2. PICK p0 \in PhasesOf(t), q0 \in PhasesOf(t) : Leads(t, k, p0, q0)
  BY <1>1
<1>3. p0 = "holding" /\ k \in Shared
  BY <1>1, <1>2 DEF Leads, Moves, On, Opens, Closes, LockSteps, Has
<1>4. t \in Clients
  BY <1>3 DEF PhasesOf, Quiet
<1>5. /\ \A u \in Clients : handles'[u] = IF u = t THEN handles[u] \cup {k} ELSE handles[u]
      /\ handles' \in [Clients -> SUBSET Shared]
  BY <1>1, <1>3, <1>4 DEF TypeOK
<1>6. \A u \in Threads, l \in Locks : u # t \/ l # k => /\ Kept(u, l)' = Kept(u, l)
                                                      /\ Count(u, l)' = Count(u, l)
  BY <1>4, <1>5 DEF Kept, Count
<1>7. \A l \in Locks : l = k => Kept(t, l)' /\ Count(t, l)' = 1
  BY <1>4, <1>5 DEF Kept, Count
<1>8. ASSUME NEW l \in Locks, NEW p \in Phases, NEW q \in Phases, Leads(t, l, p, q)
      PROVE  Has(t, l, q)'
  <2>1. CASE l = k
    <3>1. p = "holding" /\ q = "out"
      BY <1>1, <1>8, <2>1 DEF Leads, Moves, On, Opens, Closes, LockSteps
    <3>2. readers[l][t] = 1 /\ t \notin writer[l]
      BY <1>3, <1>8, <2>1, <3>1 DEF Leads, Has, Count
    <3> QED
      BY <1>1, <1>7, <2>1, <3>1, <3>2 DEF Has
  <2>2. CASE l # k
    <3>1. p = q /\ Has(t, l, p)
      BY <1>1, <1>8, <2>2 DEF Leads, Moves, On
    <3> QED
      BY <1>1, <1>6, <2>2, <3>1 DEF Has
  <2> QED
    BY <2>1, <2>2
<1>9. ASSUME NEW l \in Locks, NEW u \in Threads \ {t}, NEW r \in Phases, Has(u, l, r)
      PROVE  Has(u, l, r)'
  BY <1>1, <1>6, <1>9 DEF Has
<1> QED
  BY <1>5, <1>8, <1>9

\* The queue holds tasks.
LEMMA QueueStep ==
    ASSUME TypeOK, NEW t \in Threads, ~ Idle(t), Submit(t) \/ Swap(t) \/ Clear(t)
    PROVE  queue' \in [Slots -> Seq(Tasks)]
<1>1. CASE Submit(t)
  <2>1. PICK s \in Slots : queue' = [queue EXCEPT ![s] = Append(@, Next1(t).of)]
    BY <1>1 DEF Submit, Put, Slots
  <2>2. Next1(t).of \in Tasks
    BY <1>1, NextIsStep DEF Submit, At
  <2> QED
    BY <2>1, <2>2 DEF TypeOK
<1>2. CASE Swap(t)
  <2>1. \A s \in Slots : (s + 1) % 3 \in Slots
    BY DEF Slots
  <2> QED
    BY <1>2, <2>1 DEF Swap, Rotated, TypeOK
<1>3. CASE Clear(t)
  BY <1>3 DEF Clear
<1> QED
  BY <1>1, <1>2, <1>3

-----------------------------------------------------------------------------
(***************************************************************************)
(* Every step preserves the invariant.                                     *)
(***************************************************************************)

\* The phases of a thread are phases, and the first is always one of them.
LEMMA PhasesOfFacts ==
    ASSUME NEW t
    PROVE  PhasesOf(t) \subseteq Phases /\ "out" \in PhasesOf(t)
  BY PhaseFacts DEF PhasesOf

\* A thread with nothing to do is out of every lock.
LEMMA IdleOut ==
    ASSUME IInv, NEW t \in Threads, Idle(t), NEW l \in Locks
    PROVE  Has(t, l, "out")
<1>1. PICK p \in PhasesOf(t) : Has(t, l, p) /\ Run(PhasesOf(t), todo[t], l, p, "out")
  BY DEF IInv, InPhase
<1>2. p = "out"
  BY <1>1, RunEnd DEF Idle
<1> QED
  BY <1>1, <1>2

\* A thread that goes on does what its phases allow, and disturbs nobody's.
LEMMA ActorStep ==
    ASSUME IInv, NEW t \in Threads, Continue(t)
    PROVE  /\ TypeOK'
           /\ \A l \in Locks, p, q \in Phases : Leads(t, l, p, q) => Has(t, l, q)'
           /\ \A l \in Locks, u \in Threads \ {t}, r \in Phases : Has(u, l, r) => Has(u, l, r)'
<1>1. TypeOK /\ ~ Idle(t)
  BY DEF IInv, Continue, Read, Reserve, Drain, Free, Keep, Look, Submit, Park, Swap, Clear,
         Open, At
<1>2. todo' \in [Threads -> Seq(Steps)]
  <2>1. todo' = [todo EXCEPT ![t] = Tail(@)] /\ Tail(todo[t]) \in Seq(Steps)
    BY <1>1, NextIsStep DEF Continue
  <2> QED
    BY <1>1, <2>1 DEF TypeOK
<1>3. \A l \in Locks : \E p, q \in PhasesOf(t) : Leads(t, l, p, q)
  BY <1>1, NextLeads
<1>4. \A l \in Locks : \E p, q \in Phases : Leads(t, l, p, q)
  BY <1>3, PhasesOfFacts
<1>5. CASE Read(t)
  BY <1>1, <1>2, <1>4, <1>5, ReadStep DEF Read, TypeOK
<1>6. CASE Reserve(t)
  BY <1>1, <1>2, <1>6, ReserveStep DEF Reserve, TypeOK
<1>7. CASE Drain(t)
  BY <1>1, <1>2, <1>7, DrainStep DEF Drain, TypeOK
<1>8. CASE Free(t)
  BY <1>1, <1>2, <1>4, <1>8, FreeStep DEF Free, TypeOK
<1>9. CASE Keep(t)
  BY <1>1, <1>2, <1>3, <1>9, KeepStep DEF Keep, Transferred, TypeOK
<1>10. CASE Look(t) \/ Park(t) \/ Open(t)
  <2>1. Next1(t).do \notin LockSteps /\ UNCHANGED <<readers, writer, handles, queue>>
    BY <1>10 DEF Look, Park, Open, At, LockSteps
  <2> QED
    BY <1>1, <1>2, <2>1, AsideStep DEF TypeOK
<1>11. CASE Submit(t) \/ Swap(t) \/ Clear(t)
  <2>1. Next1(t).do \notin LockSteps /\ UNCHANGED <<readers, writer, handles>>
    BY <1>11 DEF Submit, Swap, Clear, At, LockSteps
  <2>2. queue' \in [Slots -> Seq(Tasks)]
    BY <1>1, <1>11, QueueStep
  <2> QED
    BY <1>1, <1>2, <2>1, <2>2, AsideStep DEF TypeOK
<1> QED
  BY <1>5, <1>6, <1>7, <1>8, <1>9, <1>10, <1>11 DEF Continue

\* A thread goes on.
LEMMA ContinueStep ==
    ASSUME IInv, NEW t \in Threads, Continue(t)
    PROVE  IInv'
<1>1. TypeOK'
  BY ActorStep
<1>2. ~ Idle(t) /\ TypeOK
  BY DEF IInv, Continue, Read, Reserve, Drain, Free, Keep, Look, Submit, Park, Swap, Clear,
         Open, At
<1>3. \A u \in Threads : todo'[u] = IF u = t THEN Tail(todo[u]) ELSE todo[u]
  BY <1>2 DEF Continue, TypeOK
<1>4. ASSUME NEW u \in Threads, NEW l \in Locks
      PROVE  InPhase(u, l)'
  <2>1. CASE u = t
    <3>1. PICK p \in PhasesOf(t), q \in PhasesOf(t) :
             Leads(t, l, p, q) /\ Run(PhasesOf(t), Tail(todo[t]), l, q, "out")
      BY <1>2, NextLeads
    <3>2. Has(t, l, q)'
      BY <3>1, ActorStep, PhasesOfFacts
    <3>3. Run(PhasesOf(t), todo'[t], l, q, "out")
      BY <1>3, <3>1
    <3> QED
      BY <2>1, <3>2, <3>3 DEF InPhase
  <2>2. CASE u # t
    <3>1. PICK p \in PhasesOf(u) : Has(u, l, p) /\ Run(PhasesOf(u), todo[u], l, p, "out")
      BY DEF IInv, InPhase
    <3>2. Has(u, l, p)'
      BY <2>2, <3>1, ActorStep, PhasesOfFacts
    <3>3. Run(PhasesOf(u), todo'[u], l, p, "out")
      BY <1>3, <2>2, <3>1
    <3> QED
      BY <3>2, <3>3 DEF InPhase
  <2> QED
    BY <2>1, <2>2
<1> QED
  BY <1>1, <1>4 DEF IInv

\* An idle thread begins something that rests.
LEMMA BeginStep ==
    ASSUME IInv, NEW t \in Threads, Idle(t), NEW s, NEW U, Rests(PhasesOf(t), s, U),
           todo' = [todo EXCEPT ![t] = s], UNCHANGED <<readers, writer, handles>>,
           queue' \in [Slots -> Seq(Tasks)]
    PROVE  IInv'
<1>1. TypeOK'
  BY DEF IInv, TypeOK, Rests
<1>2. \A u \in Threads : todo'[u] = IF u = t THEN s ELSE todo[u]
  BY DEF IInv, TypeOK
<1>3. \A u \in Threads, l \in Locks, p \in Phases : Has(u, l, p) => Has(u, l, p)'
  BY DEF Has, Kept, Count
<1>4. ASSUME NEW u \in Threads, NEW l \in Locks
      PROVE  InPhase(u, l)'
  <2>1. CASE u = t
    <3>1. Has(t, l, "out")'
      BY <1>3, IdleOut, PhaseFacts
    <3>2. Run(PhasesOf(t), todo'[t], l, "out", "out")
      BY <1>2 DEF Rests
    <3> QED
      BY <2>1, <3>1, <3>2, PhasesOfFacts DEF InPhase
  <2>2. CASE u # t
    <3>1. PICK p \in PhasesOf(u) : Has(u, l, p) /\ Run(PhasesOf(u), todo[u], l, p, "out")
      BY DEF IInv, InPhase
    <3>2. Has(u, l, p)' /\ Run(PhasesOf(u), todo'[u], l, p, "out")
      BY <1>2, <1>3, <2>2, <3>1, PhasesOfFacts
    <3> QED
      BY <3>2 DEF InPhase
  <2> QED
    BY <2>1, <2>2
<1> QED
  BY <1>1, <1>4 DEF IInv

\* A worker takes a task.
LEMMA TakeStep ==
    ASSUME IInv, NEW w \in Workers, Take(w)
    PROVE  IInv'
<1>1. w \in Threads /\ 0 \in Slots
  BY DEF Threads, Slots
<1>2. queue[0] \in Seq(Tasks) /\ queue[0] # <<>>
  BY <1>1 DEF IInv, TypeOK, Take
<1>3. Head(queue[0]) \in Tasks /\ Tail(queue[0]) \in Seq(Tasks)
  BY <1>2
<1>4. queue' \in [Slots -> Seq(Tasks)]
  BY <1>1, <1>3 DEF IInv, TypeOK, Take
<1>5. PICK U : Rests(Quiet, Task(Head(queue[0])), U)
  BY <1>3, TaskRests
<1>6. Rests(PhasesOf(w), Task(Head(queue[0])), U)
  BY <1>5, RestsMore DEF PhasesOf
<1> QED
  BY <1>1, <1>4, <1>6, BeginStep DEF Take

\* The application calls.
LEMMA CallStep ==
    ASSUME IInv, NEW t \in Clients, Call(t)
    PROVE  IInv'
<1>1. t \in Threads /\ PhasesOf(t) = Phases
  BY DEF Threads, PhasesOf
<1>2. PICK op \in Ops : todo' = [todo EXCEPT ![t] = Script(op)]
  BY DEF Call
<1>3. PICK U : Rests(Phases, Script(op), U)
  BY <1>2, CallRests, LockAssumption
<1>4. queue' \in [Slots -> Seq(Tasks)]
  BY DEF Call, IInv, TypeOK
<1> QED
  BY <1>1, <1>2, <1>3, <1>4, BeginStep DEF Call

\* A handle is given up.
LEMMA DropStep ==
    ASSUME IInv, NEW t \in Clients, Drop(t)
    PROVE  IInv'
<1>1. t \in Threads /\ Idle(t) /\ TypeOK
  BY DEF Threads, Drop, IInv
<1>2. PICK map \in handles[t] :
         /\ handles' = [handles EXCEPT ![t] = @ \ {map}]
         /\ readers' = [readers EXCEPT ![map][t] = @ - 1]
         /\ UNCHANGED <<todo, writer, queue>>
  BY DEF Drop
<1>3. map \in Shared /\ map \in Locks
  BY <1>1, <1>2 DEF TypeOK, Locks
<1>4. Has(t, map, "out") /\ readers[map][t] = 1 /\ Kept(t, map)
  <2>1. Has(t, map, "out")
    BY <1>1, <1>3, IdleOut
  <2>2. Kept(t, map)
    BY <1>2 DEF Kept
  <2> QED
    BY <1>3, <2>1, <2>2 DEF Has, Count
<1>5. /\ \A l \in Shared, u \in Threads :
            readers'[l][u] = IF l = map /\ u = t THEN 0 ELSE readers[l][u]
      /\ readers' \in [Shared -> [Threads -> Nat]]
  BY <1>1, <1>2, <1>3, <1>4 DEF TypeOK
<1>6. /\ \A u \in Clients : handles'[u] = IF u = t THEN handles[u] \ {map} ELSE handles[u]
      /\ handles' \in [Clients -> SUBSET Shared]
  BY <1>1, <1>2 DEF TypeOK
<1>7. TypeOK'
  BY <1>1, <1>2, <1>5, <1>6 DEF TypeOK
<1>8. \A u \in Threads, l \in Locks :
         Kept(u, l)' <=> Kept(u, l) /\ ~ (u = t /\ l = map)
  BY <1>6 DEF Kept
<1>9. ASSUME NEW u \in Threads, NEW l \in Locks
      PROVE  InPhase(u, l)'
  <2>1. PICK p \in PhasesOf(u) : Has(u, l, p) /\ Run(PhasesOf(u), todo[u], l, p, "out")
    BY DEF IInv, InPhase
  <2>2. Has(u, l, p)'
    <3>1. CASE u = t /\ l = map
      <4>1. p = "out"
        BY <1>1, <2>1, <3>1, RunEnd DEF Idle
      <4>2. t \notin writer'[map]
        BY <1>2, <2>1, <3>1, <4>1 DEF Has
      <4>3. readers'[l][u] = 0 /\ ~ Kept(u, l)'
        BY <1>3, <1>5, <1>8, <3>1
      <4> QED
        BY <3>1, <4>1, <4>2, <4>3 DEF Has, Count
    <3>2. CASE ~ (u = t /\ l = map)
      <4>1. p = "in" => l # map
        BY <1>1, <1>3, <1>4, <2>1 DEF Has
      <4>2. (Kept(u, l)' <=> Kept(u, l)) /\ (l \in Shared => readers'[l][u] = readers[l][u])
        BY <1>5, <1>8, <3>2
      <4>3. p = "in" /\ l \in Shared => \A v \in Threads : readers'[l][v] = 0
        BY <1>5, <2>1, <4>1 DEF Has
      <4> QED
        BY <1>2, <2>1, <4>2, <4>3 DEF Has, Count
    <3> QED
      BY <3>1, <3>2
  <2>3. Run(PhasesOf(u), todo'[u], l, p, "out")
    BY <1>2, <2>1
  <2> QED
    BY <2>2, <2>3 DEF InPhase
<1> QED
  BY <1>7, <1>9 DEF IInv

\* At first nobody has anything.
LEMMA InitInv == Init => IInv
<1> SUFFICES ASSUME Init PROVE IInv
  OBVIOUS
<1>1. TypeOK
  BY DEF Init, TypeOK, Slots
<1>2. ASSUME NEW t \in Threads, NEW l \in Locks PROVE InPhase(t, l)
  <2>1. "out" \in PhasesOf(t)
    BY PhasesOfFacts
  <2>2. Has(t, l, "out")
    BY DEF Init, Has, Count, Kept
  <2>3. Run(PhasesOf(t), todo[t], l, "out", "out")
    BY <2>1, RunNone DEF Init
  <2> QED
    BY <2>1, <2>2, <2>3 DEF InPhase
<1> QED
  BY <1>1, <1>2 DEF IInv

\* Every step.
LEMMA StepInv == IInv /\ [Next]_vars => IInv'
<1> SUFFICES ASSUME IInv, [Next]_vars PROVE IInv'
  OBVIOUS
<1>1. ASSUME NEW t \in Threads, Continue(t) PROVE IInv'
  BY <1>1, ContinueStep
<1>2. ASSUME NEW w \in Workers, Take(w) PROVE IInv'
  BY <1>2, TakeStep
<1>3. ASSUME NEW t \in Clients, Call(t) \/ Drop(t) PROVE IInv'
  BY <1>3, CallStep, DropStep
<1>4. CASE UNCHANGED vars
  <2>1. TypeOK'
    BY <1>4 DEF vars, IInv, TypeOK
  <2>2. \A t \in Threads, l \in Locks, p \in Phases : Has(t, l, p) => Has(t, l, p)'
    BY <1>4 DEF vars, Has, Kept, Count
  <2>3. \A t \in Threads : todo'[t] = todo[t]
    BY <1>4 DEF vars
  <2>4. ASSUME NEW t \in Threads, NEW l \in Locks PROVE InPhase(t, l)'
    <3>1. PICK p \in PhasesOf(t) : Has(t, l, p) /\ Run(PhasesOf(t), todo[t], l, p, "out")
      BY DEF IInv, InPhase
    <3>2. Has(t, l, p)' /\ Run(PhasesOf(t), todo'[t], l, p, "out")
      BY <2>2, <2>3, <3>1, PhasesOfFacts
    <3> QED
      BY <3>2 DEF InPhase
  <2> QED
    BY <2>1, <2>4 DEF IInv
<1> QED
  BY <1>1, <1>2, <1>3, <1>4 DEF Next

\* A writer that is past the readers has the map for itself, so nobody keeps a handle.
LEMMA InvProtects == IInv => HandlesProtect
<1> SUFFICES ASSUME IInv, NEW t \in Clients, NEW map \in handles[t], NEW u \in Threads,
                    Inside(u, map)
             PROVE  FALSE
  BY DEF HandlesProtect
<1>1. t \in Threads /\ map \in Shared /\ map \in Locks
  BY DEF IInv, TypeOK, Threads, Locks
<1>2. PICK p \in PhasesOf(u) : Has(u, map, p) /\ Run(PhasesOf(u), todo[u], map, p, "out")
  BY <1>1 DEF IInv, InPhase
<1>3. p \in {"shut", "in"}
  BY <1>2 DEF Has, Inside
<1>4. CASE p = "shut"
  <2>1. ~ Idle(u)
    BY <1>2, <1>4, RunEnd DEF Idle
  <2>2. PICK q : Moves(Head(todo[u]), map, p, q)
    <3>1. todo[u] \in Seq(Steps) /\ todo[u] # <<>>
      BY <2>1 DEF IInv, TypeOK, Idle
    <3> QED
      BY <1>2, <3>1, RunTail
  <2>3. Head(todo[u]).do = "drain" /\ Head(todo[u]).of = map
    BY <1>4, <2>2 DEF Moves, On, Opens, Closes
  <2> QED
    BY <2>1, <2>3 DEF Inside, At, Lock, Next1
<1>5. CASE p = "in"
  <2>1. readers[map][t] = 0
    BY <1>1, <1>2, <1>5 DEF Has
  <2>2. PICK r \in PhasesOf(t) : Has(t, map, r)
    BY <1>1 DEF IInv, InPhase
  <2>3. Kept(t, map)
    BY DEF Kept
  <2> QED
    BY <1>1, <2>1, <2>2, <2>3 DEF Has, Count
<1> QED
  BY <1>3, <1>4, <1>5

-----------------------------------------------------------------------------
\* Every thread is in a phase of every lock, by what it has and what it has still to do.
THEOREM Phased == Spec => []IInv
  BY InitInv, StepInv, PTL DEF Spec

\* constant_buffer_impl.h:46: no thread changes a map while a handle of one of its
\* objects lives, whoever calls what and however often.
THEOREM HandleProtection == Spec => []HandlesProtect
  BY Phased, InvProtects, PTL

\* What a call or task takes it gives back: a thread with nothing to do has no lock but
\* those of its handles.
GivesBack == \A t \in Threads, l \in Locks :
                Idle(t) => /\ t \notin writer[l]
                           /\ l \in Shared => readers[l][t] = Count(t, l)

\* unlock is never forgotten and never done twice, on any way through a call or task.
THEOREM NothingLeftLocked == Spec => []GivesBack
<1>1. IInv => GivesBack
  BY IdleOut DEF GivesBack, Has, Count
<1> QED
  BY <1>1, Phased, PTL
===============================================================================
