---------------------------- MODULE LifetimeProofs ----------------------------
(***************************************************************************)
(* What Lifetime shows for any number of workers and uses: no worker runs  *)
(* a task of an object that is gone, and handles find the library as long  *)
(* as anything of it is held.  The argument follows the shares: what is    *)
(* owned is alive, and what is alive and not being destroyed owns all it   *)
(* was made with.                                                          *)
(***************************************************************************)
EXTENDS Lifetime, TLAPS

Stages == {"pool", "device", "context", "create", "workers", "renderer", "up", "failed", "gone"}
Kinds  == {"resource", "command"}

TypeOK ==
    /\ owns \in [Holders -> Seq(Objects)]
    /\ alive \subseteq Objects
    /\ unwinding \in Seq(Holders)
    /\ stage \in Stages
    /\ status \in {"NONE", "RUNNING", "BARRIER", "DONE"}
    /\ wpc \in [Workers -> {"none", "loop", "pop", "run", "parked", "gone"}]
    /\ hand \in [Workers -> Kinds \cup {"none"}]
    /\ tasks \in Seq(Kinds) /\ handles \in Seq(Kinds)
    /\ closed \in {"no", "waiting", "done"}
    /\ fault \in {"none", "null"}

Member(x, s)  == \E i \in 1..Len(s) : s[i] = x
Distinct(s)   == \A i, j \in 1..Len(s) : s[i] = s[j] => i = j
Destroying(x) == Member(x, unwinding)

\* What has a share is there and stays for the time being; nobody has two, and what
\* is gone has none.
SharesHold ==
    /\ \A x \in Objects : x \notin alive => owns[x] = <<>>
    /\ \A h \in Holders : Distinct(owns[h])
    /\ \A h \in Holders, x \in Objects : Member(x, owns[h]) => x \in alive /\ ~ Destroying(x)

\* Each destructor runs once, of an object that is there.
UnwindInv ==
    /\ Distinct(unwinding)
    /\ \A x \in Objects : Destroying(x) => x \in alive

\* What is there and not being destroyed has all its members.
Intact(x, shares) == x \in alive /\ ~ Destroying(x) => owns[x] = shares
WholeInv == /\ Intact("renderer", RendererShares)
            /\ Intact("context", ContextShares)

\* What the framework has, by where initialize() is or how it ended.
FrameworkShares ==
    CASE stage = "pool"    -> <<>>
      [] stage = "device"  -> <<"pool">>
      [] stage = "context" -> <<"device", "pool">>
      [] stage \in {"create", "workers", "renderer", "failed"} -> <<"device", "context", "pool">>
      [] stage = "up"      -> <<"device", "renderer", "context", "pool">>

HoldersInv ==
    /\ stage # "gone" => owns["framework"] = FrameworkShares
    /\ owns["application"] \in {<<>>, <<"renderer">>}
    /\ owns["application"] # <<>> \/ handles # <<>> \/ closed # "no" => stage \in {"up", "gone"}
    /\ stage \notin {"up", "gone"} => unwinding = <<>>
    /\ Destroying("framework") => stage = "gone"

\* Workers run as long as the pool has its share of the context.
WorkersInv ==
    /\ stage \notin {"renderer", "up", "gone"} => \A w \in Workers : wpc[w] = "none"
    /\ \A w \in Workers : wpc[w] \notin {"none", "gone"} => owns["pool"] = <<"context">>
    /\ \A w \in Workers : hand[w] # "none" => wpc[w] = "run"

\* After terminate() the workers stay at the barrier until the pool goes.
ClosedInv ==
    /\ closed = "waiting" => status = "BARRIER" /\ unwinding = <<>> /\ stage = "up"
    /\ closed = "done" =>
          \/ status = "BARRIER" /\ \A w \in Workers : wpc[w] = "parked"
          \/ status = "DONE" /\ \A w \in Workers : wpc[w] \in {"parked", "loop", "gone"}

OwnInv == SharesHold /\ UnwindInv /\ WholeInv

IInv == /\ TypeOK /\ OwnInv /\ HoldersInv
        /\ WorkersInv /\ ClosedInv /\ HandlesFindTheLibrary

-----------------------------------------------------------------------------
(***************************************************************************)
(* Members and repetitions.                                                *)
(***************************************************************************)

\* The shares that are given out.
LEMMA TupleMembers ==
    /\ Distinct(<<>>) /\ \A x : ~ Member(x, <<>>)
    /\ \A a : Distinct(<<a>>) /\ \A x : Member(x, <<a>>) <=> x = a
    /\ \A a, b : /\ a # b => Distinct(<<a, b>>)
                 /\ \A x : Member(x, <<a, b>>) <=> x \in {a, b}
    /\ \A a, b, c : /\ a # b /\ a # c /\ b # c => Distinct(<<a, b, c>>)
                    /\ \A x : Member(x, <<a, b, c>>) <=> x \in {a, b, c}
<1>1. Distinct(<<>>) /\ \A x : ~ Member(x, <<>>)
  BY DEF Distinct, Member
<1>2. ASSUME NEW a PROVE Distinct(<<a>>) /\ \A x : Member(x, <<a>>) <=> x = a
  <2>1. Len(<<a>>) = 1 /\ <<a>>[1] = a /\ 1..1 = {1}
    OBVIOUS
  <2> QED
    BY <2>1 DEF Distinct, Member
<1>3. ASSUME NEW a, NEW b
      PROVE  /\ a # b => Distinct(<<a, b>>)
             /\ \A x : Member(x, <<a, b>>) <=> x \in {a, b}
  <2>1. Len(<<a, b>>) = 2 /\ <<a, b>>[1] = a /\ <<a, b>>[2] = b /\ 1..2 = {1, 2}
    OBVIOUS
  <2> QED
    BY <2>1 DEF Distinct, Member
<1>4. ASSUME NEW a, NEW b, NEW c
      PROVE  /\ a # b /\ a # c /\ b # c => Distinct(<<a, b, c>>)
             /\ \A x : Member(x, <<a, b, c>>) <=> x \in {a, b, c}
  <2>1. /\ Len(<<a, b, c>>) = 3 /\ 1..3 = {1, 2, 3}
        /\ <<a, b, c>>[1] = a /\ <<a, b, c>>[2] = b /\ <<a, b, c>>[3] = c
    OBVIOUS
  <2> QED
    BY <2>1 DEF Distinct, Member
<1> QED
  BY <1>1, <1>2, <1>3, <1>4

\* Those of the framework at last.
LEMMA AllMembers ==
    LET s == <<"device", "renderer", "context", "pool">>
    IN  Distinct(s) /\ \A x : Member(x, s) <=> x \in Objects
<1> DEFINE s == <<"device", "renderer", "context", "pool">>
<1>1. /\ Len(s) = 4 /\ 1..4 = {1, 2, 3, 4}
      /\ s[1] = "device" /\ s[2] = "renderer" /\ s[3] = "context" /\ s[4] = "pool"
  OBVIOUS
<1> HIDE DEF s
<1>2. Distinct(s) /\ \A x : Member(x, s) <=> x \in Objects
  BY <1>1 DEF Distinct, Member, Objects
<1> QED
  BY <1>2 DEF s

\* What is left when the first goes.
LEMMA TailMembers ==
    ASSUME NEW S, NEW s \in Seq(S), s # <<>>, Distinct(s)
    PROVE  /\ Tail(s) \in Seq(S) /\ Head(s) \in S /\ Member(Head(s), s)
           /\ Distinct(Tail(s))
           /\ \A x : Member(x, Tail(s)) <=> Member(x, s) /\ x # Head(s)
<1>1. /\ Tail(s) \in Seq(S) /\ Head(s) = s[1] /\ Len(s) \in Nat \ {0}
      /\ Len(Tail(s)) = Len(s) - 1 /\ \A i \in 1..Len(Tail(s)) : Tail(s)[i] = s[i + 1]
  OBVIOUS
<1>2. 1 \in 1..Len(s) /\ \A i \in 1..Len(Tail(s)) : i + 1 \in 2..Len(s)
  BY <1>1
<1>3. Head(s) \in S /\ Member(Head(s), s)
  BY <1>1, <1>2 DEF Member
<1>4. Distinct(Tail(s))
  <2> SUFFICES ASSUME NEW i \in 1..Len(Tail(s)), NEW j \in 1..Len(Tail(s)),
                      Tail(s)[i] = Tail(s)[j]
               PROVE  i = j
    BY DEF Distinct
  <2>1. i + 1 \in 1..Len(s) /\ j + 1 \in 1..Len(s) /\ s[i + 1] = s[j + 1]
    BY <1>1, <1>2
  <2>2. i + 1 = j + 1
    BY <2>1 DEF Distinct
  <2> QED
    BY <2>2
<1>5. ASSUME NEW x, Member(x, Tail(s)) PROVE Member(x, s) /\ x # Head(s)
  <2>1. PICK i \in 1..Len(Tail(s)) : Tail(s)[i] = x
    BY <1>5 DEF Member
  <2>2. i + 1 \in 1..Len(s) /\ s[i + 1] = x /\ i + 1 # 1
    BY <1>1, <1>2, <2>1
  <2> QED
    BY <1>1, <1>2, <2>2 DEF Member, Distinct
<1>6. ASSUME NEW x, Member(x, s), x # Head(s) PROVE Member(x, Tail(s))
  <2>1. PICK i \in 1..Len(s) : s[i] = x
    BY <1>6 DEF Member
  <2>2. i - 1 \in 1..Len(Tail(s)) /\ (i - 1) + 1 = i
    BY <1>1, <1>6, <2>1
  <2> QED
    BY <1>1, <2>1, <2>2 DEF Member
<1> QED
  BY <1>1, <1>3, <1>4, <1>5, <1>6

\* One more in front.
LEMMA ConsMembers ==
    ASSUME NEW S, NEW s \in Seq(S), NEW a \in S, Distinct(s), ~ Member(a, s)
    PROVE  /\ <<a>> \o s \in Seq(S)
           /\ Distinct(<<a>> \o s)
           /\ \A x : Member(x, <<a>> \o s) <=> Member(x, s) \/ x = a
<1> DEFINE r == <<a>> \o s
<1>1. /\ r \in Seq(S) /\ Len(r) = Len(s) + 1 /\ r[1] = a /\ Len(s) \in Nat
      /\ \A i \in 1..Len(s) : r[i + 1] = s[i]
  OBVIOUS
<1>2. \A i \in 1..Len(r) : i = 1 \/ (i - 1 \in 1..Len(s) /\ r[i] = s[i - 1])
  BY <1>1
<1> HIDE DEF r
<1>3. Distinct(r)
  <2> SUFFICES ASSUME NEW i \in 1..Len(r), NEW j \in 1..Len(r), r[i] = r[j] PROVE i = j
    BY DEF Distinct
  <2>1. CASE i = 1 \/ j = 1
    BY <1>1, <1>2, <2>1 DEF Member
  <2>2. CASE i # 1 /\ j # 1
    <3>1. i - 1 = j - 1
      BY <1>2, <2>2 DEF Distinct
    <3> QED
      BY <3>1
  <2> QED
    BY <2>1, <2>2
<1>4. ASSUME NEW x PROVE Member(x, r) <=> Member(x, s) \/ x = a
  <2>1. Member(x, r) => Member(x, s) \/ x = a
    BY <1>1, <1>2 DEF Member
  <2>2. x = a => Member(x, r)
    BY <1>1 DEF Member
  <2>3. Member(x, s) => Member(x, r)
    <3> SUFFICES ASSUME NEW i \in 1..Len(s), s[i] = x PROVE Member(x, r)
      BY DEF Member
    <3>1. i + 1 \in 1..Len(r) /\ r[i + 1] = x
      BY <1>1
    <3> QED
      BY <3>1 DEF Member
  <2> QED
    BY <2>1, <2>2, <2>3
<1> QED
  BY <1>1, <1>3, <1>4 DEF r

-----------------------------------------------------------------------------
(***************************************************************************)
(* The steps that change who owns what.                                    *)
(***************************************************************************)

\* A new object whose shares are of objects that are there.
LEMMA MakeStep ==
    ASSUME TypeOK, OwnInv, unwinding = <<>>, UNCHANGED unwinding,
           NEW o \in Objects, NEW shares \in Seq(Objects), NEW dropped \in Seq(Objects),
           Make(o, shares, dropped), Distinct(shares), Distinct(dropped),
           \A x \in Objects : Member(x, shares) => x \in alive,
           \A x \in Objects : Member(x, dropped) => x \in alive \cup {o},
           o = "renderer" => shares = RendererShares, o = "context" => shares = ContextShares
    PROVE  /\ OwnInv' /\ alive' \subseteq Objects
           /\ owns' \in [Holders -> Seq(Objects)]
           /\ owns'["framework"] = dropped /\ owns'[o] = shares
           /\ \A h \in Holders \ {o, "framework"} : owns'[h] = owns[h]
<1>1. o # "framework" /\ o \in Holders /\ "framework" \in Holders /\ "framework" \notin Objects
  BY DEF Holders, Objects
<1>2. /\ owns' \in [Holders -> Seq(Objects)]
      /\ owns'["framework"] = dropped /\ owns'[o] = shares
      /\ \A h \in Holders \ {o, "framework"} : owns'[h] = owns[h]
      /\ alive' = alive \cup {o}
  BY <1>1 DEF Make, TypeOK
<1>3. \A x : ~ Destroying(x)'
  BY TupleMembers DEF Destroying
<1>4. SharesHold'
  <2>1. ASSUME NEW x \in Objects, x \notin alive' PROVE owns'[x] = <<>>
    BY <1>1, <1>2, <2>1 DEF OwnInv, SharesHold, Holders
  <2>2. ASSUME NEW h \in Holders PROVE Distinct(owns'[h])
    BY <1>2 DEF OwnInv, SharesHold
  <2>3. ASSUME NEW h \in Holders, NEW x \in Objects, Member(x, owns'[h]) PROVE x \in alive'
    BY <1>2, <2>3 DEF OwnInv, SharesHold
  <2> QED
    BY <1>3, <2>1, <2>2, <2>3 DEF SharesHold
<1>5. UnwindInv'
  BY <1>3 DEF OwnInv, UnwindInv
<1>6. WholeInv'
  <2>1. ASSUME NEW x \in {"renderer", "context"}, NEW made,
               Intact(x, made), x = o => shares = made
        PROVE  Intact(x, made)'
    <3>1. x \in Holders \ {"framework"} /\ ~ Destroying(x)
      BY TupleMembers DEF Holders, Objects, Destroying
    <3> QED
      BY <1>2, <2>1, <3>1 DEF Intact
  <2>2. Intact("renderer", RendererShares)' /\ Intact("context", ContextShares)'
    BY <2>1 DEF OwnInv, WholeInv, RendererShares, ContextShares, Intact
  <2> QED
    BY <2>2 DEF WholeInv
<1> QED
  BY <1>2, <1>4, <1>5, <1>6 DEF OwnInv, TypeOK

\* The next member goes; if nobody else has it its destructor begins.
LEMMA DropShareStep ==
    ASSUME TypeOK, OwnInv, DropShare
    PROVE  /\ OwnInv' /\ unwinding' \in Seq(Holders)
           /\ owns' \in [Holders -> Seq(Objects)]
           /\ owns'[Innermost] = Tail(owns[Innermost])
           /\ \A h \in Holders \ {Innermost} : owns'[h] = owns[h]
<1> DEFINE i == Innermost
           x == Head(owns[i])
<1>1. /\ unwinding # <<>> /\ i \in Holders /\ i = unwinding[1] /\ Destroying(i)
      /\ owns[i] \in Seq(Objects) /\ owns[i] # <<>> /\ Distinct(owns[i])
  <2>1. i \in Holders /\ Member(i, unwinding) /\ unwinding # <<>> /\ i = unwinding[1]
    BY TailMembers DEF DropShare, Ready, OwnInv, UnwindInv, TypeOK, Innermost
  <2> QED
    BY <2>1 DEF DropShare, OwnInv, SharesHold, TypeOK, Destroying
<1>2. /\ x \in Objects /\ Member(x, owns[i]) /\ Tail(owns[i]) \in Seq(Objects)
      /\ Distinct(Tail(owns[i]))
      /\ \A y : Member(y, Tail(owns[i])) <=> Member(y, owns[i]) /\ y # x
  BY <1>1, TailMembers
<1>3. /\ owns' = [owns EXCEPT ![i] = Tail(@)] /\ UNCHANGED alive
      /\ unwinding' = IF Shared(x) THEN unwinding ELSE <<x>> \o unwinding
  BY DEF DropShare
<1>4. x \in alive /\ ~ Destroying(x) /\ x \in Holders
  BY <1>1, <1>2 DEF OwnInv, SharesHold, Holders
<1>5. Shared(x) <=> \E h \in Holders \ {i} : Member(x, owns[h])
  BY DEF Shared, Member
<1> HIDE DEF i, x
<1>6. /\ owns' \in [Holders -> Seq(Objects)] /\ owns'[i] = Tail(owns[i])
      /\ \A h \in Holders \ {i} : owns'[h] = owns[h]
  BY <1>1, <1>2, <1>3 DEF TypeOK
<1>7. /\ unwinding' \in Seq(Holders) /\ Distinct(unwinding')
      /\ \A y : Member(y, unwinding') <=> Destroying(y) \/ (y = x /\ ~ Shared(x))
  <2>1. unwinding \in Seq(Holders) /\ Distinct(unwinding) /\ ~ Member(x, unwinding)
    BY <1>4 DEF TypeOK, OwnInv, UnwindInv, Destroying
  <2>2. CASE Shared(x)
    BY <1>3, <2>1, <2>2 DEF Destroying
  <2>3. CASE ~ Shared(x)
    BY <1>3, <1>4, <2>1, <2>3, ConsMembers DEF Destroying
  <2> QED
    BY <2>2, <2>3
<1>8. SharesHold'
  <2>1. ASSUME NEW y \in Objects, y \notin alive' PROVE owns'[y] = <<>>
    <3>1. owns[y] = <<>> /\ y \in Holders
      BY <1>3, <2>1 DEF OwnInv, SharesHold, Holders
    <3> QED
      BY <1>1, <1>6, <3>1
  <2>2. ASSUME NEW h \in Holders PROVE Distinct(owns'[h])
    BY <1>2, <1>6 DEF OwnInv, SharesHold
  <2>3. ASSUME NEW h \in Holders, NEW y \in Objects, Member(y, owns'[h])
        PROVE  y \in alive' /\ ~ Member(y, unwinding')
    <3>1. Member(y, owns[h]) /\ (h = i => y # x)
      BY <1>2, <1>6, <2>3
    <3>2. y \in alive /\ ~ Destroying(y)
      BY <3>1 DEF OwnInv, SharesHold
    <3>3. ~ (y = x /\ ~ Shared(x))
      BY <1>5, <3>1
    <3> QED
      BY <1>3, <1>7, <3>2, <3>3
  <2> QED
    BY <2>1, <2>2, <2>3 DEF SharesHold, Destroying
<1>9. UnwindInv'
  BY <1>3, <1>4, <1>7 DEF OwnInv, UnwindInv, Destroying
<1>10. WholeInv'
  <2>1. ASSUME NEW y \in Holders, NEW made, Intact(y, made)
        PROVE  y \in alive' /\ ~ Member(y, unwinding') => owns'[y] = made
    <3> SUFFICES ASSUME y \in alive', ~ Member(y, unwinding') PROVE owns'[y] = made
      OBVIOUS
    <3>1. ~ Destroying(y) /\ y # i
      BY <1>1, <1>7
    <3> QED
      BY <1>3, <1>6, <2>1, <3>1 DEF Intact
  <2>2. "renderer" \in Holders /\ "context" \in Holders
    BY DEF Holders, Objects
  <2> QED
    BY <2>1, <2>2 DEF OwnInv, WholeInv, Intact, Destroying, RendererShares, ContextShares
<1> QED
  BY <1>6, <1>7, <1>8, <1>9, <1>10 DEF OwnInv, i

\* The destructor ends.
LEMMA DestroyedStep ==
    ASSUME TypeOK, OwnInv, Destroyed
    PROVE  /\ OwnInv' /\ alive' \subseteq Objects /\ unwinding' \in Seq(Holders)
           /\ UNCHANGED owns
<1> DEFINE i == Innermost
<1>1. /\ unwinding # <<>> /\ unwinding \in Seq(Holders) /\ Distinct(unwinding)
      /\ owns[i] = <<>> /\ alive' = alive \ {i} /\ unwinding' = Tail(unwinding)
      /\ UNCHANGED owns /\ i = Head(unwinding)
  BY DEF Destroyed, Ready, OwnInv, UnwindInv, TypeOK, Innermost
<1> HIDE DEF i
<1>2. /\ unwinding' \in Seq(Holders) /\ i \in Holders /\ Member(i, unwinding)
      /\ Distinct(unwinding')
      /\ \A x : Member(x, unwinding') <=> Member(x, unwinding) /\ x # i
  BY <1>1, TailMembers
<1>3. SharesHold'
  <2>1. ASSUME NEW x \in Objects, x \notin alive' PROVE owns'[x] = <<>>
    BY <1>1, <2>1 DEF OwnInv, SharesHold
  <2>2. ASSUME NEW h \in Holders, NEW x \in Objects, Member(x, owns'[h])
        PROVE  x \in alive' /\ ~ Member(x, unwinding')
    <3>1. x \in alive /\ ~ Member(x, unwinding)
      BY <1>1, <2>2 DEF OwnInv, SharesHold, Destroying
    <3> QED
      BY <1>1, <1>2, <3>1
  <2>3. \A h \in Holders : Distinct(owns'[h])
    BY <1>1 DEF OwnInv, SharesHold
  <2> QED
    BY <2>1, <2>2, <2>3 DEF SharesHold, Destroying
<1>4. UnwindInv'
  BY <1>1, <1>2 DEF OwnInv, UnwindInv, Destroying
<1>5. WholeInv'
  <2>1. ASSUME NEW y, NEW made, Intact(y, made), y \in alive', ~ Member(y, unwinding')
        PROVE  owns'[y] = made
    BY <1>1, <1>2, <2>1 DEF Intact, Destroying
  <2> QED
    BY <2>1 DEF OwnInv, WholeInv, Intact, Destroying, RendererShares, ContextShares
<1> QED
  BY <1>1, <1>2, <1>3, <1>4, <1>5 DEF OwnInv, TypeOK

\* Whatever else happens, nothing changes hands.
LEMMA OwnStays ==
    ASSUME OwnInv, UNCHANGED own
    PROVE  OwnInv'
  BY DEF own, OwnInv, SharesHold, UnwindInv, WholeInv, Intact, Destroying, Member, Distinct,
         RendererShares, ContextShares

\* A share of something that is there is handed out.
LEMMA ShareStep ==
    ASSUME TypeOK, OwnInv, unwinding = <<>>, UNCHANGED <<alive, unwinding>>,
           NEW h \in {"application", "pool"}, h = "pool" => h \in alive,
           NEW x \in alive, owns' = [owns EXCEPT ![h] = <<x>>]
    PROVE  /\ OwnInv' /\ owns' \in [Holders -> Seq(Objects)] /\ owns'[h] = <<x>>
           /\ \A g \in Holders \ {h} : owns'[g] = owns[g]
<1>1. h \in Holders /\ x \in Objects
  BY DEF Holders, Objects, TypeOK
<1>2. /\ owns' \in [Holders -> Seq(Objects)] /\ owns'[h] = <<x>>
      /\ \A g \in Holders \ {h} : owns'[g] = owns[g]
  BY <1>1 DEF TypeOK
<1>3. \A y : ~ Destroying(y) /\ ~ Destroying(y)'
  BY TupleMembers DEF Destroying
<1>4. SharesHold'
  <2>1. ASSUME NEW y \in Objects, y \notin alive' PROVE owns'[y] = <<>>
    <3>1. y # h /\ y \in Holders /\ owns[y] = <<>>
      BY <2>1 DEF OwnInv, SharesHold, Holders, Objects
    <3> QED
      BY <1>2, <3>1
  <2>2. ASSUME NEW g \in Holders
        PROVE  Distinct(owns'[g]) /\ \A y \in Objects : Member(y, owns'[g]) => y \in alive'
    <3>1. CASE g = h
      BY <1>2, <3>1, TupleMembers
    <3>2. CASE g # h
      BY <1>2, <3>2 DEF OwnInv, SharesHold
    <3> QED
      BY <3>1, <3>2
  <2> QED
    BY <1>3, <2>1, <2>2 DEF SharesHold
<1>5. UnwindInv'
  BY DEF OwnInv, UnwindInv, Destroying
<1>6. WholeInv'
  <2>1. owns'["renderer"] = owns["renderer"] /\ owns'["context"] = owns["context"]
    BY <1>2 DEF Holders, Objects
  <2> QED
    BY <1>3, <2>1 DEF OwnInv, WholeInv, Intact, RendererShares, ContextShares
<1> QED
  BY <1>2, <1>4, <1>5, <1>6 DEF OwnInv

-----------------------------------------------------------------------------
(***************************************************************************)
(* Every step preserves the invariant.                                     *)
(***************************************************************************)

\* What the framework has is there, as long as it is not given up.
LEMMA FrameworkHas ==
    ASSUME IInv, stage # "gone"
    PROVE  /\ stage = "device" => "pool" \in alive
           /\ stage = "context" => {"device", "pool"} \subseteq alive
           /\ stage \in {"create", "workers", "renderer", "failed"} =>
                 {"device", "context", "pool"} \subseteq alive
           /\ stage = "up" => Objects \subseteq alive
<1>1. \A x \in Objects : Member(x, FrameworkShares) => x \in alive
  BY DEF IInv, HoldersInv, OwnInv, SharesHold, Holders
<1>2. CASE stage = "device"
  BY <1>1, <1>2, TupleMembers DEF FrameworkShares, Objects
<1>3. CASE stage = "context"
  <2>1. FrameworkShares = <<"device", "pool">>
    BY <1>3 DEF FrameworkShares
  <2>2. \A x : Member(x, FrameworkShares) <=> x \in {"device", "pool"}
    BY <2>1, TupleMembers
  <2> QED
    BY <1>1, <1>3, <2>2 DEF Objects
<1>4. CASE stage \in {"create", "workers", "renderer", "failed"}
  <2>1. FrameworkShares = <<"device", "context", "pool">>
    BY <1>4 DEF FrameworkShares
  <2>2. \A x : Member(x, FrameworkShares) <=> x \in {"device", "context", "pool"}
    BY <2>1, TupleMembers
  <2> QED
    BY <1>1, <1>4, <2>2 DEF Objects
<1>5. CASE stage = "up"
  <2>1. FrameworkShares = <<"device", "renderer", "context", "pool">>
    BY <1>5 DEF FrameworkShares
  <2> QED
    BY <1>1, <1>5, <2>1, AllMembers
<1> QED
  BY <1>2, <1>3, <1>4, <1>5 DEF IInv, TypeOK, Stages

\* initialize() makes its parts.
LEMMA InitializeMakes ==
    ASSUME IInv, NEW o \in Objects, NEW shares \in Seq(Objects), NEW dropped \in Seq(Objects),
           NEW from, NEW to, At(from, to), to \in Stages \ {"gone"}, from # "gone",
           Make(o, shares, dropped),
           UNCHANGED <<unwinding, pool, app, fault>>, Distinct(shares), Distinct(dropped),
           \A x \in Objects : Member(x, shares) => x \in alive,
           \A x \in Objects : Member(x, dropped) => x \in alive \cup {o},
           o = "renderer" => shares = RendererShares, o = "context" => shares = ContextShares,
           FrameworkShares' = dropped, o = "pool" => stage = "pool",
           stage \notin {"up", "gone"},
           from = "renderer" <=> to = "up"
    PROVE  IInv'
<1>1. TypeOK /\ OwnInv /\ unwinding = <<>> /\ stage' = to
  BY DEF IInv, At
<1>2. /\ OwnInv' /\ alive' \subseteq Objects
      /\ owns' \in [Holders -> Seq(Objects)]
      /\ owns'["framework"] = dropped
      /\ \A h \in Holders \ {o, "framework"} : owns'[h] = owns[h]
  BY <1>1, MakeStep
<1>3. TypeOK'
  BY <1>1, <1>2 DEF TypeOK, pool, app
<1>4. owns'["application"] = owns["application"] /\ owns["application"] = <<>>
      /\ handles = <<>> /\ closed = "no"
  BY <1>2 DEF Holders, Objects, IInv, HoldersInv
<1>5. HoldersInv'
  <2>1. ~ Destroying("framework")'
    BY <1>1, TupleMembers DEF Destroying
  <2> QED
    BY <1>1, <1>2, <1>4, <2>1 DEF HoldersInv, app
<1>6. WorkersInv'
  <2>1. UNCHANGED <<wpc, hand>> /\ stage = from
    BY DEF pool, At
  <2>2. stage \notin {"renderer", "up", "gone"} => \A w \in Workers : wpc[w] = "none"
    BY DEF IInv, WorkersInv
  <2>3. \A w \in Workers : wpc[w] \notin {"none", "gone"} => owns'["pool"] = <<"context">>
    <3>1. CASE o = "pool"
      BY <2>2, <3>1
    <3>2. CASE o # "pool"
      <4>1. owns'["pool"] = owns["pool"]
        BY <1>2, <3>2 DEF Holders, Objects
      <4> QED
        BY <4>1 DEF IInv, WorkersInv
    <3> QED
      BY <3>1, <3>2
  <2>4. stage' \notin {"renderer", "up", "gone"} => \A w \in Workers : wpc[w] = "none"
    BY <1>1, <2>1, <2>2
  <2> QED
    BY <2>1, <2>3, <2>4 DEF IInv, WorkersInv
<1>7. ClosedInv'
  BY <1>4 DEF ClosedInv, app
<1>8. HandlesFindTheLibrary'
  BY <1>1 DEF IInv, HandlesFindTheLibrary
<1> QED
  BY <1>2, <1>3, <1>5, <1>6, <1>7, <1>8 DEF IInv

\* Each part in turn.
LEMMA MakingStep ==
    ASSUME IInv, MakePool \/ MakeDevice \/ MakeContext \/ MakeRenderer
    PROVE  IInv'
<1>1. /\ <<>> \in Seq(Objects) /\ Distinct(<<>>)
      /\ \A x \in Objects : Member(x, <<>>) => x \in alive
  BY TupleMembers
<1>2. CASE MakePool
  <2> DEFINE d == <<"pool">>
  <2>1. /\ Distinct(d) /\ (\A x : Member(x, d) <=> x = "pool")
        /\ d \in Seq(Objects) /\ "pool" \in Objects
    BY TupleMembers DEF Objects
  <2>2. FrameworkShares' = d /\ stage = "pool" /\ "device" \in Stages \ {"gone"}
    BY <1>2 DEF MakePool, At, FrameworkShares, Stages
  <2>3. At("pool", "device") /\ Make("pool", <<>>, d) /\ UNCHANGED <<unwinding, pool, app, fault>>
    BY <1>2 DEF MakePool
  <2>4. \A x \in Objects : Member(x, d) => x \in alive \cup {"pool"}
    BY <2>1
  <2> HIDE DEF d
  <2> QED
    BY <1>1, <2>1, <2>2, <2>3, <2>4, InitializeMakes
<1>3. CASE MakeDevice
  <2> DEFINE d == <<"device", "pool">>
  <2>1. /\ Distinct(d) /\ (\A x : Member(x, d) <=> x \in {"device", "pool"})
        /\ d \in Seq(Objects) /\ "device" \in Objects
    BY TupleMembers DEF Objects
  <2>2. FrameworkShares' = d /\ stage = "device" /\ "context" \in Stages \ {"gone"}
    BY <1>3 DEF MakeDevice, At, FrameworkShares, Stages
  <2>3. \A x \in Objects : Member(x, d) => x \in alive \cup {"device"}
    BY <2>1, <2>2, FrameworkHas
  <2>4. At("device", "context") /\ Make("device", <<>>, d) /\ UNCHANGED <<unwinding, pool, app, fault>>
    BY <1>3 DEF MakeDevice
  <2> HIDE DEF d
  <2> QED
    BY <1>1, <2>1, <2>2, <2>3, <2>4, InitializeMakes
<1>4. CASE MakeContext
  <2> DEFINE d == <<"device", "context", "pool">>
  <2>1. /\ Distinct(d) /\ (\A x : Member(x, d) <=> x \in {"device", "context", "pool"})
        /\ d \in Seq(Objects) /\ "context" \in Objects
    BY TupleMembers DEF Objects
  <2>2. FrameworkShares' = d /\ stage = "context" /\ "create" \in Stages \ {"gone"}
    BY <1>4 DEF MakeContext, At, FrameworkShares, Stages
  <2>3. {"device", "pool"} \subseteq alive
    BY <2>2, FrameworkHas
  <2>4. /\ ContextShares \in Seq(Objects) /\ Distinct(ContextShares)
        /\ \A x : Member(x, ContextShares) => x \in alive
    BY <2>3, TupleMembers DEF ContextShares, Objects
  <2>5. /\ At("context", "create") /\ Make("context", ContextShares, d)
        /\ UNCHANGED <<unwinding, pool, app, fault>>
    BY <1>4 DEF MakeContext
  <2> HIDE DEF d
  <2> QED
    BY <2>1, <2>2, <2>3, <2>4, <2>5, InitializeMakes
<1>5. CASE MakeRenderer
  <2> DEFINE d == <<"device", "renderer", "context", "pool">>
  <2>1. /\ Distinct(d) /\ (\A x : Member(x, d) <=> x \in Objects)
        /\ d \in Seq(Objects) /\ "renderer" \in Objects
    BY AllMembers DEF Objects
  <2>2. FrameworkShares' = d /\ stage = "renderer" /\ "up" \in Stages \ {"gone"}
    BY <1>5 DEF MakeRenderer, At, FrameworkShares, Stages
  <2>3. {"device", "context", "pool"} \subseteq alive
    BY <2>2, FrameworkHas
  <2>4. /\ RendererShares \in Seq(Objects) /\ Distinct(RendererShares)
        /\ \A x : Member(x, RendererShares) => x \in alive
    BY <2>3, TupleMembers DEF RendererShares, Objects
  <2>5. /\ At("renderer", "up") /\ Make("renderer", RendererShares, d)
        /\ UNCHANGED <<unwinding, pool, app, fault>>
    BY <1>5 DEF MakeRenderer
  <2>6. \A x \in Objects : x \in alive \cup {"renderer"}
    BY <2>3 DEF Objects
  <2> HIDE DEF d
  <2> QED
    BY <2>1, <2>2, <2>4, <2>5, <2>6, InitializeMakes
<1> QED
  BY <1>2, <1>3, <1>4, <1>5

\* The workers start.
LEMMA StartWorkersStep ==
    ASSUME IInv, StartWorkers
    PROVE  IInv'
<1>1. /\ TypeOK /\ OwnInv /\ unwinding = <<>> /\ stage = "workers" /\ stage' = "renderer"
      /\ UNCHANGED <<alive, unwinding, hand, tasks, handles, closed, fault>>
      /\ {"device", "context", "pool"} \subseteq alive
  BY FrameworkHas DEF IInv, StartWorkers, At, app
<1>2. /\ OwnInv' /\ owns' \in [Holders -> Seq(Objects)] /\ owns'["pool"] = <<"context">>
      /\ \A g \in Holders \ {"pool"} : owns'[g] = owns[g]
  <2>1. owns' = [owns EXCEPT !["pool"] = <<"context">>]
    BY DEF StartWorkers
  <2> QED
    BY <1>1, <2>1, ShareStep
<1>3. TypeOK'
  BY <1>1, <1>2 DEF TypeOK, StartWorkers, Stages
<1>4. HoldersInv'
  <2>1. owns'["framework"] = owns["framework"] /\ owns'["application"] = owns["application"]
    BY <1>2 DEF Holders, Objects
  <2>2. FrameworkShares' = FrameworkShares
    BY <1>1 DEF FrameworkShares
  <2>3. ~ Destroying("framework")'
    BY <1>1, TupleMembers DEF Destroying
  <2> QED
    BY <1>1, <2>1, <2>2, <2>3 DEF IInv, HoldersInv
<1>5. WorkersInv'
  <2>1. \A w \in Workers : hand[w] = "none"
    BY <1>1 DEF IInv, WorkersInv
  <2> QED
    BY <1>1, <1>2, <2>1 DEF WorkersInv
<1>6. ClosedInv' /\ HandlesFindTheLibrary'
  BY <1>1 DEF IInv, HoldersInv, ClosedInv, HandlesFindTheLibrary
<1> QED
  BY <1>2, <1>3, <1>4, <1>5, <1>6 DEF IInv

\* initialize() goes on, or gives up.
LEMMA OtherInitialize ==
    ASSUME IInv, CreateDevice \/ InitializeFails
    PROVE  IInv'
<1>1. OwnInv' /\ UNCHANGED <<own, wpc, hand, tasks, app, fault>>
      /\ UNCHANGED <<owns, alive, unwinding, handles, closed>>
  BY OwnStays DEF IInv, CreateDevice, InitializeFails, pool, own, app
<1>2. /\ stage \in {"create", "workers"} /\ stage' \in {"workers", "failed"}
      /\ unwinding = <<>> /\ status' \in {status, "DONE"}
  BY DEF CreateDevice, InitializeFails, At, pool
<1>3. TypeOK'
  BY <1>1, <1>2 DEF IInv, TypeOK, Stages
<1>4. HoldersInv'
  <2>1. FrameworkShares' = FrameworkShares
    BY <1>2 DEF FrameworkShares
  <2>2. ~ Destroying("framework")'
    BY <1>1, <1>2, TupleMembers DEF Destroying
  <2> QED
    BY <1>1, <1>2, <2>1, <2>2 DEF IInv, HoldersInv
<1>5. WorkersInv' /\ ClosedInv' /\ HandlesFindTheLibrary'
  BY <1>1, <1>2 DEF IInv, HoldersInv, WorkersInv, ClosedInv, HandlesFindTheLibrary
<1> QED
  BY <1>1, <1>3, <1>4, <1>5 DEF IInv

\* What a destructor of a handle needs is there while the framework or a Renderer is.
LEMMA LibraryThere ==
    ASSUME IInv, unwinding = <<>>, handles # <<>>, NEW kind \in Kinds,
           stage # "gone" \/ owns["application"] # <<>>
    PROVE  Needs(kind) \subseteq alive
<1>1. Needs(kind) \subseteq {"renderer", "context", "pool"}
  BY DEF Needs
<1>2. CASE stage # "gone"
  <2>1. stage = "up"
    BY <1>2 DEF IInv, HoldersInv
  <2> QED
    BY <1>1, <2>1, FrameworkHas DEF Objects
<1>3. CASE owns["application"] # <<>>
  <2>1. owns["application"] = <<"renderer">>
    BY <1>3 DEF IInv, HoldersInv
  <2>2. "renderer" \in alive
    <3>1. Member("renderer", owns["application"])
      BY <2>1, TupleMembers
    <3> QED
      BY <3>1 DEF IInv, OwnInv, SharesHold, Holders, Objects
  <2>3. owns["renderer"] = RendererShares
    <3>1. ~ Destroying("renderer")
      BY TupleMembers DEF Destroying
    <3> QED
      BY <2>2, <3>1 DEF IInv, OwnInv, WholeInv, Intact
  <2>4. Member("pool", owns["renderer"]) /\ Member("context", owns["renderer"])
    BY <2>3, TupleMembers DEF RendererShares
  <2>5. "pool" \in alive /\ "context" \in alive
    BY <2>4 DEF IInv, OwnInv, SharesHold, Holders, Objects
  <2> QED
    BY <1>1, <2>2, <2>5
<1> QED
  BY <1>2, <1>3

\* The application begins to destroy what it has, or the framework.
LEMMA GiveUpBegins ==
    ASSUME TypeOK, OwnInv, unwinding = <<>>, NEW h \in {"application", "framework"},
           unwinding' = <<h>>, UNCHANGED <<owns, alive>>
    PROVE  OwnInv' /\ unwinding' \in Seq(Holders) /\ \A x : Destroying(x)' <=> x = h
<1>1. /\ unwinding' \in Seq(Holders) /\ Distinct(unwinding')
      /\ \A x : Member(x, unwinding') <=> x = h
  BY TupleMembers DEF Holders
<1>2. h \notin Objects /\ \A x : ~ Destroying(x)
  BY TupleMembers DEF Objects, Destroying
<1>3. "renderer" \in Objects /\ "context" \in Objects
  BY DEF Objects
<1> QED
  BY <1>1, <1>2, <1>3 DEF OwnInv, SharesHold, UnwindInv, WholeInv, Intact, Destroying,
                          RendererShares, ContextShares

\* The application asks for a Renderer.
LEMMA GetRendererStep ==
    ASSUME IInv, GetRenderer
    PROVE  IInv'
<1>1. /\ TypeOK /\ OwnInv /\ unwinding = <<>> /\ stage = "up" /\ closed # "waiting"
      /\ UNCHANGED <<alive, unwinding, stage, status, wpc, hand, tasks, handles, closed, fault>>
      /\ "renderer" \in alive
  BY FrameworkHas DEF IInv, GetRenderer, Uses, Calls, pool, Objects
<1>2. /\ OwnInv' /\ owns' \in [Holders -> Seq(Objects)] /\ owns'["application"] = <<"renderer">>
      /\ \A g \in Holders \ {"application"} : owns'[g] = owns[g]
  <2>1. owns' = [owns EXCEPT !["application"] = <<"renderer">>]
    BY DEF GetRenderer
  <2> QED
    BY <1>1, <2>1, ShareStep
<1>3. owns'["framework"] = owns["framework"] /\ owns'["pool"] = owns["pool"]
  BY <1>2 DEF Holders, Objects
<1>4. TypeOK'
  BY <1>1, <1>2 DEF TypeOK
<1>5. HoldersInv'
  BY <1>1, <1>2, <1>3 DEF IInv, HoldersInv, FrameworkShares, Destroying
<1>6. WorkersInv' /\ ClosedInv' /\ HandlesFindTheLibrary'
  BY <1>1, <1>3 DEF IInv, WorkersInv, ClosedInv, HandlesFindTheLibrary
<1> QED
  BY <1>2, <1>4, <1>5, <1>6 DEF IInv

\* Resources and commands are asked for and given up.
LEMMA HandleStep ==
    ASSUME IInv, fault = "none", GiveUp \/ \E kind \in Kinds : Create(kind)
    PROVE  IInv'
<1>1. /\ UNCHANGED <<owns, alive, unwinding, stage, status, wpc, hand, closed>>
      /\ OwnInv' /\ unwinding = <<>> /\ TypeOK
  <2>1. UNCHANGED own
    BY DEF GiveUp, Create
  <2> QED
    BY <2>1, OwnStays DEF IInv, GiveUp, Create, own, pool, Uses, Calls
<1>2. WorkersInv' /\ ClosedInv'
  BY <1>1 DEF IInv, WorkersInv, ClosedInv
<1>3. CASE GiveUp
  <2>1. handles # <<>> /\ handles' = Tail(handles) /\ handles \in Seq(Kinds)
    BY <1>1, <1>3 DEF GiveUp, TypeOK
  <2>2. Head(handles) \in Kinds /\ handles' \in Seq(Kinds)
    BY <2>1
  <2>3. tasks' \in Seq(Kinds) /\ fault' \in {"none", "null"}
    <3>1. tasks' \in {tasks, Append(tasks, Head(handles))}
      BY <1>3 DEF GiveUp
    <3>2. fault' \in {fault, "null"}
      BY <1>3 DEF GiveUp
    <3>3. tasks \in Seq(Kinds) /\ fault \in {"none", "null"}
      BY <1>1 DEF TypeOK
    <3>4. Append(tasks, Head(handles)) \in Seq(Kinds)
      BY <2>2, <3>3
    <3> QED
      BY <3>1, <3>2, <3>3, <3>4
  <2>4. TypeOK'
    BY <1>1, <2>2, <2>3 DEF TypeOK
  <2>5. HoldersInv'
    BY <1>1, <2>1 DEF IInv, HoldersInv, FrameworkShares, Destroying
  <2>6. HandlesFindTheLibrary'
    <3>1. fault' = "null" => ~ Needs(Head(handles)) \subseteq alive
      BY <1>3 DEF GiveUp
    <3> QED
      BY <1>1, <2>1, <2>2, <3>1, LibraryThere DEF HandlesFindTheLibrary
  <2> QED
    BY <1>1, <1>2, <2>4, <2>5, <2>6 DEF IInv
<1>4. ASSUME NEW kind \in Kinds, Create(kind) PROVE IInv'
  <2>1. handles' = Append(handles, kind) /\ owns["application"] # <<>> /\ UNCHANGED <<tasks, fault>>
    BY <1>4 DEF Create, pool
  <2>2. handles' \in Seq(Kinds)
    BY <1>1, <2>1 DEF TypeOK
  <2>3. TypeOK'
    BY <1>1, <2>1, <2>2 DEF TypeOK
  <2>4. HoldersInv'
    BY <1>1, <2>1 DEF IInv, HoldersInv, FrameworkShares, Destroying
  <2>5. HandlesFindTheLibrary'
    BY <1>1, <2>1 DEF IInv, HandlesFindTheLibrary
  <2> QED
    BY <1>1, <1>2, <2>3, <2>4, <2>5 DEF IInv
<1> QED
  BY <1>3, <1>4

\* terminate(), until the barrier is through.
LEMMA TerminateStep ==
    ASSUME IInv, Terminate \/ Terminated
    PROVE  IInv'
<1>1. /\ UNCHANGED <<owns, alive, unwinding, stage, wpc, hand, handles, fault>>
      /\ OwnInv' /\ TypeOK
  <2>1. UNCHANGED own
    BY DEF Terminate, Terminated
  <2> QED
    BY <2>1, OwnStays DEF IInv, Terminate, Terminated, own
<1>2. TypeOK'
  <2>1. /\ status' \in {status, "BARRIER"} /\ tasks' \in {tasks, <<>>}
        /\ closed' \in {"waiting", "done"}
    BY DEF Terminate, Terminated
  <2>2. tasks' \in Seq(Kinds)
    <3>1. <<>> \in Seq(Kinds) /\ tasks \in Seq(Kinds)
      BY <1>1 DEF TypeOK
    <3> QED
      BY <2>1, <3>1
  <2> QED
    BY <1>1, <2>1, <2>2 DEF TypeOK
<1>3. stage = "up" /\ unwinding = <<>>
  BY DEF Terminate, Terminated, Uses, Calls, IInv, ClosedInv
<1>4. HoldersInv'
  BY <1>1, <1>3 DEF IInv, HoldersInv, FrameworkShares, Destroying
<1>5. WorkersInv' /\ HandlesFindTheLibrary'
  BY <1>1 DEF IInv, WorkersInv, HandlesFindTheLibrary
<1>6. ClosedInv'
  <2>1. CASE Terminate
    BY <1>1, <1>3, <2>1 DEF Terminate, ClosedInv
  <2>2. CASE Terminated
    BY <1>1, <2>2 DEF Terminated, AllParked, ClosedInv, IInv
  <2> QED
    BY <2>1, <2>2
<1> QED
  BY <1>1, <1>2, <1>4, <1>5, <1>6 DEF IInv

\* The application gives up its Renderer or the framework.
LEMMA DropStep ==
    ASSUME IInv, fault = "none", DropRenderer \/ DropFramework
    PROVE  IInv'
<1>1. /\ UNCHANGED <<owns, alive, status, wpc, hand, tasks, handles, closed, fault>>
      /\ unwinding = <<>> /\ closed # "waiting" /\ TypeOK
      /\ stage' = IF DropRenderer THEN stage ELSE "gone"
  BY DEF DropRenderer, DropFramework, Calls, pool, app, IInv
<1>2. PICK h \in {"application", "framework"} :
         /\ unwinding' = <<h>>
         /\ h = "framework" => stage' = "gone"
         /\ h = "application" => stage' = stage /\ owns["application"] # <<>>
  BY DEF DropRenderer, DropFramework
<1>3. OwnInv' /\ unwinding' \in Seq(Holders) /\ \A x : Destroying(x)' <=> x = h
  BY <1>1, <1>2, GiveUpBegins DEF IInv
<1>4. TypeOK'
  BY <1>1, <1>3 DEF TypeOK, Stages
<1>5. HoldersInv'
  <2>1. stage' \in {"up", "gone"}
    BY <1>1, <1>2 DEF IInv, HoldersInv
  <2>2. stage' # "gone" => stage' = stage /\ h # "framework"
    BY <1>1, <1>2
  <2> QED
    BY <1>1, <1>2, <1>3, <2>1, <2>2 DEF IInv, HoldersInv, FrameworkShares
<1>6. WorkersInv' /\ ClosedInv' /\ HandlesFindTheLibrary'
  BY <1>1, <1>2 DEF IInv, WorkersInv, ClosedInv, HandlesFindTheLibrary
<1> QED
  BY <1>3, <1>4, <1>5, <1>6 DEF IInv

\* Destructors go on.
LEMMA UnwindStep ==
    ASSUME IInv, fault = "none", Unwind
    PROVE  IInv'
<1>1. /\ UNCHANGED <<stage, wpc, hand, tasks, handles, closed, fault>>
      /\ unwinding # <<>> /\ stage \in {"up", "gone"} /\ TypeOK /\ OwnInv
      /\ closed # "waiting"
  BY DEF Unwind, Stop, DropShare, Destroyed, Within, Ready, pool, app, IInv, HoldersInv, ClosedInv
<1>2. CASE Stop
  <2>1. UNCHANGED <<owns, alive, unwinding>> /\ OwnInv' /\ status' = "DONE"
    BY <1>1, <1>2, OwnStays DEF Stop, own
  <2>2. TypeOK'
    BY <1>1, <2>1 DEF TypeOK
  <2>3. HoldersInv'
    BY <1>1, <2>1 DEF IInv, HoldersInv, FrameworkShares, Destroying
  <2>4. WorkersInv' /\ ClosedInv' /\ HandlesFindTheLibrary'
    BY <1>1, <2>1 DEF IInv, WorkersInv, ClosedInv, HandlesFindTheLibrary
  <2> QED
    BY <2>1, <2>2, <2>3, <2>4 DEF IInv
<1>3. CASE DropShare
  <2> DEFINE i == Innermost
  <2>1. /\ OwnInv' /\ unwinding' \in Seq(Holders) /\ owns' \in [Holders -> Seq(Objects)]
        /\ owns'[i] = Tail(owns[i]) /\ owns[i] # <<>>
        /\ \A h \in Holders \ {i} : owns'[h] = owns[h]
        /\ UNCHANGED <<alive, status>>
        /\ (i = "pool" => Joined)
    BY <1>1, <1>3, DropShareStep DEF DropShare, Ready, pool
  <2>2. i \in Holders /\ Destroying(i)
    BY <1>1, TailMembers DEF OwnInv, UnwindInv, TypeOK, Innermost, Destroying
  <2> HIDE DEF i
  <2>3. TypeOK'
    BY <1>1, <2>1 DEF TypeOK
  <2>4. HoldersInv'
    <3>1. stage # "gone" => owns'["framework"] = owns["framework"]
      BY <2>1, <2>2 DEF IInv, HoldersInv, Holders
    <3>2. owns'["application"] \in {<<>>, owns["application"]}
      <4>1. CASE i = "application"
        <5>1. owns["application"] = <<"renderer">>
          BY <2>1, <4>1 DEF IInv, HoldersInv
        <5> QED
          BY <2>1, <4>1, <5>1
      <4>2. CASE i # "application"
        BY <2>1, <4>2 DEF Holders
      <4> QED
        BY <4>1, <4>2
    <3>3. Destroying("framework")' => stage' = "gone"
      <4>1. Destroying("framework")' => Destroying("framework")
        <5>1. CASE Shared(Head(owns[i]))
          BY <1>3, <5>1 DEF DropShare, Destroying, i
        <5>2. CASE ~ Shared(Head(owns[i]))
          <6>1. Head(owns[i]) \in Objects /\ ~ Member(Head(owns[i]), unwinding)
            <7>1. owns[i] \in Seq(Objects) /\ Distinct(owns[i])
              BY <1>1, <2>2 DEF TypeOK, OwnInv, SharesHold
            <7>2. Head(owns[i]) \in Objects /\ Member(Head(owns[i]), owns[i])
              BY <2>1, <7>1, TailMembers
            <7> QED
              BY <1>1, <2>2, <7>2 DEF OwnInv, SharesHold, Destroying
          <6>2. unwinding' = <<Head(owns[i])>> \o unwinding
            BY <1>3, <5>2 DEF DropShare, i
          <6>3. Head(owns[i]) \in Holders /\ Head(owns[i]) # "framework"
            BY <6>1 DEF Holders, Objects
          <6> QED
            BY <1>1, <6>1, <6>2, <6>3, ConsMembers DEF Destroying, TypeOK, OwnInv, UnwindInv
        <5> QED
          BY <5>1, <5>2
      <4> QED
        BY <1>1, <4>1 DEF IInv, HoldersInv
    <3>4. FrameworkShares' = FrameworkShares
      BY <1>1 DEF FrameworkShares
    <3> QED
      BY <1>1, <3>1, <3>2, <3>3, <3>4 DEF IInv, HoldersInv
  <2>5. WorkersInv'
    <3>1. (\A w \in Workers : wpc[w] \in {"none", "gone"}) \/ owns'["pool"] = owns["pool"]
      BY <2>1 DEF Joined, Holders, Objects
    <3> QED
      BY <1>1, <3>1 DEF IInv, WorkersInv
  <2>6. ClosedInv' /\ HandlesFindTheLibrary'
    BY <1>1, <2>1 DEF IInv, ClosedInv, HandlesFindTheLibrary
  <2> QED
    BY <2>1, <2>3, <2>4, <2>5, <2>6 DEF IInv
<1>4. CASE Destroyed
  <2>1. /\ OwnInv' /\ alive' \subseteq Objects /\ unwinding' \in Seq(Holders)
        /\ UNCHANGED <<owns, status>>
    BY <1>1, <1>4, DestroyedStep DEF Destroyed, pool
  <2>2. TypeOK'
    BY <1>1, <2>1 DEF TypeOK
  <2>3. Destroying("framework")' => Destroying("framework")
    BY <1>1, <1>4, TailMembers DEF Destroyed, Destroying, TypeOK, OwnInv, UnwindInv
  <2>4. HoldersInv'
    BY <1>1, <2>1, <2>3 DEF IInv, HoldersInv, FrameworkShares
  <2>5. WorkersInv' /\ ClosedInv' /\ HandlesFindTheLibrary'
    BY <1>1, <2>1 DEF IInv, WorkersInv, ClosedInv, HandlesFindTheLibrary
  <2> QED
    BY <2>1, <2>2, <2>4, <2>5 DEF IInv
<1> QED
  BY <1>2, <1>3, <1>4 DEF Unwind

\* A worker goes on.
LEMMA WorkerStep ==
    ASSUME IInv, fault = "none", NEW w \in Workers, Worker(w)
    PROVE  IInv'
<1>1. /\ UNCHANGED <<owns, alive, unwinding, stage, status, handles, closed, fault>>
      /\ OwnInv' /\ TypeOK
  <2>1. UNCHANGED own
    BY DEF Worker
  <2> QED
    BY <2>1, OwnStays DEF IInv, Worker, own, app
<1>2. HoldersInv' /\ HandlesFindTheLibrary'
  BY <1>1 DEF IInv, HoldersInv, FrameworkShares, Destroying, HandlesFindTheLibrary
<1>3. PICK to \in {"loop", "pop", "run", "parked", "gone"} :
         /\ wpc' = [wpc EXCEPT ![w] = to] /\ wpc[w] \notin {"none", "gone"}
         /\ to \in {"pop", "gone"} => wpc[w] = "loop"
         /\ to = "gone" <=> wpc[w] = "loop" /\ status = "DONE"
         /\ wpc[w] = "parked" => to = "loop" /\ status # "BARRIER"
         /\ wpc[w] = "loop" => to \in {"pop", "gone"}
         /\ IF to = "run"
            THEN hand' = [hand EXCEPT ![w] = Head(tasks)] /\ tasks # <<>> /\ tasks' = Tail(tasks)
            ELSE UNCHANGED tasks /\ hand' \in {hand, [hand EXCEPT ![w] = "none"]}
         /\ wpc[w] = "run" => hand' = [hand EXCEPT ![w] = "none"]
  BY DEF Worker, Loop, Pop, PopNothing, Run, WakeUp, Move
<1>4. /\ \A v \in Workers : wpc'[v] = IF v = w THEN to ELSE wpc[v]
      /\ \A v \in Workers \ {w} : hand'[v] = hand[v]
      /\ hand'[w] # "none" => to = "run" \/ (hand'[w] = hand[w] /\ wpc[w] # "run")
      /\ hand' \in [Workers -> Kinds \cup {"none"}] /\ tasks' \in Seq(Kinds)
  <2>1. CASE to = "run"
    <3>1. tasks \in Seq(Kinds) /\ tasks # <<>>
      BY <1>1, <1>3, <2>1 DEF TypeOK
    <3>2. Head(tasks) \in Kinds /\ Tail(tasks) \in Seq(Kinds)
      BY <3>1
    <3> QED
      BY <1>1, <1>3, <2>1, <3>2 DEF TypeOK
  <2>2. CASE to # "run"
    BY <1>1, <1>3, <2>2 DEF TypeOK
  <2> QED
    BY <2>1, <2>2
<1>5. TypeOK'
  BY <1>1, <1>3, <1>4 DEF TypeOK
<1>6. WorkersInv'
  BY <1>1, <1>3, <1>4 DEF IInv, WorkersInv
<1>7. ClosedInv'
  BY <1>1, <1>3, <1>4 DEF IInv, ClosedInv
<1> QED
  BY <1>1, <1>2, <1>5, <1>6, <1>7 DEF IInv

\* Nothing is there at first.
LEMMA InitInv == Init => IInv
<1> SUFFICES ASSUME Init PROVE IInv
  OBVIOUS
<1>1. TypeOK
  BY DEF Init, TypeOK, Stages
<1>2. OwnInv
  BY TupleMembers DEF Init, OwnInv, SharesHold, UnwindInv, WholeInv, Intact, Destroying,
                      Holders, Objects
<1>3. HoldersInv
  BY TupleMembers DEF Init, HoldersInv, FrameworkShares, Destroying, Holders
<1>4. WorkersInv /\ ClosedInv /\ HandlesFindTheLibrary
  BY DEF Init, WorkersInv, ClosedInv, HandlesFindTheLibrary
<1> QED
  BY <1>1, <1>2, <1>3, <1>4 DEF IInv

\* Every step.
LEMMA StepInv == IInv /\ [Next]_vars => IInv'
<1> SUFFICES ASSUME IInv, [Next]_vars PROVE IInv'
  OBVIOUS
<1>1. CASE Next /\ Initialize
  BY <1>1, MakingStep, StartWorkersStep, OtherInitialize DEF Initialize
<1>2. CASE Next /\ Application
  BY <1>2, GetRendererStep, HandleStep, TerminateStep, DropStep DEF Next, Application, Kinds
<1>3. CASE Next /\ Unwind
  BY <1>3, UnwindStep DEF Next
<1>4. ASSUME Next, NEW w \in Workers, Worker(w) PROVE IInv'
  BY <1>4, WorkerStep DEF Next
<1>5. CASE UNCHANGED vars
  <2>1. OwnInv'
    BY <1>5, OwnStays DEF IInv, vars
  <2>2. TypeOK' /\ HoldersInv' /\ WorkersInv' /\ ClosedInv' /\ HandlesFindTheLibrary'
    BY <1>5 DEF vars, own, pool, app, IInv, TypeOK, HoldersInv, FrameworkShares, Destroying,
                WorkersInv, ClosedInv, HandlesFindTheLibrary
  <2> QED
    BY <2>1, <2>2 DEF IInv
<1> QED
  BY <1>1, <1>2, <1>3, <1>4, <1>5 DEF Next

-----------------------------------------------------------------------------
\* While a worker has a task, the pool and what the pool's share of the context keeps
\* are there.
LEMMA BusyKeeps ==
    ASSUME IInv, NEW w \in Workers, wpc[w] \notin {"none", "gone"}
    PROVE  {"pool", "context", "device"} \subseteq alive
<1>1. owns["pool"] = <<"context">> /\ "pool" \in Objects /\ "context" \in Objects
      /\ "device" \in Objects /\ Objects \subseteq Holders
  BY DEF IInv, WorkersInv, Objects, Holders
<1>2. "pool" \in alive
  BY <1>1 DEF IInv, OwnInv, SharesHold
<1>3. Member("context", owns["pool"])
  BY <1>1, TupleMembers
<1>4. "context" \in alive /\ ~ Destroying("context")
  BY <1>1, <1>3 DEF IInv, OwnInv, SharesHold
<1>5. owns["context"] = <<"device">>
  BY <1>4 DEF IInv, OwnInv, WholeInv, Intact, ContextShares
<1>6. Member("device", owns["context"])
  BY <1>5, TupleMembers
<1>7. "device" \in alive
  BY <1>1, <1>6 DEF IInv, OwnInv, SharesHold
<1> QED
  BY <1>2, <1>4, <1>7

\* So nobody works on what is gone.
LEMMA InvNoDangling == IInv => NoDangling
<1> SUFFICES ASSUME IInv, NEW w \in Workers
             PROVE  Captured(hand[w]) \subseteq alive \/ (closed # "done" /\ hand[w] = "command")
  BY DEF NoDangling
<1>1. CASE hand[w] = "none"
  BY <1>1 DEF Captured
<1>2. CASE hand[w] # "none"
  <2>1. wpc[w] = "run" /\ hand[w] \in Kinds
    BY <1>2 DEF IInv, WorkersInv, TypeOK
  <2>2. {"context", "device"} \subseteq alive
    BY <2>1, BusyKeeps
  <2>3. closed # "done"
    BY <2>1 DEF IInv, ClosedInv
  <2> QED
    BY <2>1, <2>2, <2>3 DEF Captured, Kinds
<1> QED
  BY <1>1, <1>2

\* What is owned is alive, what is alive and not being destroyed is whole, each
\* destructor runs once.
THEOREM SharesInvariant == Spec => []IInv
  BY InitInv, StepInv, PTL DEF Spec

\* renderer_impl.cpp:47: no worker runs a task of an object that is gone, but for
\* commands whose renderer the framework gave up without terminate().
THEOREM NothingDangles == Spec => []NoDangling
  BY SharesInvariant, InvNoDangling, PTL

\* texture_impl.cpp:37: the weak pointer of a handle or a command, which is not tested,
\* is never null while the framework or a Renderer lives.
THEOREM LibraryFound == Spec => []HandlesFindTheLibrary
<1>1. IInv => HandlesFindTheLibrary
  BY DEF IInv
<1> QED
  BY <1>1, SharesInvariant, PTL

\* framework_impl.cpp:58: workers have raw pointers to the pool and the device; both,
\* and the context, outlive every worker, and each destructor runs once, of an object
\* that is there.
PoolOutlivesWorkers ==
    /\ \A w \in Workers : wpc[w] \notin {"none", "gone"} =>
          {"pool", "context", "device"} \subseteq alive
    /\ \A i, j \in 1..Len(unwinding) : unwinding[i] = unwinding[j] => i = j
    /\ \A i \in 1..Len(unwinding) : unwinding[i] \in alive \cup {"framework", "application"}

\* Nothing is destroyed twice or under a worker.
THEOREM WorkersHaveTheirPool == Spec => []PoolOutlivesWorkers
<1>1. IInv => PoolOutlivesWorkers
  <2> SUFFICES ASSUME IInv PROVE PoolOutlivesWorkers
    OBVIOUS
  <2>1. \A i \in 1..Len(unwinding) : unwinding[i] \in alive \cup {"framework", "application"}
    <3> TAKE i \in 1..Len(unwinding)
    <3>1. unwinding[i] \in Holders /\ Destroying(unwinding[i])
      BY DEF IInv, TypeOK, Destroying, Member
    <3> QED
      BY <3>1 DEF IInv, OwnInv, UnwindInv, Holders
  <2> QED
    BY <2>1, BusyKeeps DEF PoolOutlivesWorkers, IInv, OwnInv, UnwindInv, Distinct
<1> QED
  BY <1>1, SharesInvariant, PTL
===============================================================================
