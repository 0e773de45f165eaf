------------------------ MODULE PipelineStatesProofs ------------------------
(***************************************************************************)
(* PipelineStates: for any number of workers, signatures, layouts, states  *)
(* and calls, and for every description: names stay where they are, a      *)
(* description does not vanish under the worker that reads it, what was    *)
(* created is not replaced, a signature is made of what its calls asked    *)
(* for in their order, and a state of what its description asked for.      *)
(***************************************************************************)
EXTENDS PipelineStates, FiniteSetTheorems, TLAPS

-----------------------------------------------------------------------------
(***************************************************************************)
(* Input layouts.                                                          *)
(***************************************************************************)

\* A layout that exists has room for MaxSemantics names.
LayoutInv ==
    /\ layouts \in [Layouts -> [there : BOOLEAN, inputs : Nat, capacity : Nat, moved : Nat]]
    /\ \A l \in Layouts :
          /\ ~layouts[l].there => layouts[l].inputs = 0 /\ layouts[l].moved = 0
          /\ layouts[l].there => layouts[l].capacity >= MaxSemantics
          /\ layouts[l].inputs <= MaxSemantics => layouts[l].moved = 0

\* Every step keeps what is known of the layouts.
LEMMA LayoutStep == ASSUME LayoutInv, [Next]_vars PROVE LayoutInv'
<1>0. MaxSemantics \in Nat
  BY PipelineAssumption
<1>1. CASE UNCHANGED layouts
  BY <1>1 DEF LayoutInv
<1>2. ASSUME NEW l \in Layouts, NEW r \in [there : BOOLEAN, inputs : Nat, capacity : Nat, moved : Nat],
             r.there, r.capacity >= MaxSemantics, r.inputs <= MaxSemantics => r.moved = 0,
             layouts' = [layouts EXCEPT ![l] = r]
      PROVE  LayoutInv'
  BY <1>2 DEF LayoutInv
<1>3. ASSUME NEW l \in Layouts, CreateInputLayout(l) PROVE LayoutInv'
  <2>1. PICK old \in [there : BOOLEAN, inputs : Nat, capacity : Nat, moved : Nat] :
           old = layouts[l] /\ old.inputs = 0 /\ old.moved = 0
    BY <1>3 DEF CreateInputLayout, LayoutInv
  <2>2. PICK r : r = [old EXCEPT !.there = TRUE, !.capacity = MaxSemantics]
    OBVIOUS
  <2>3. layouts' = [layouts EXCEPT ![l] = r]
    BY <1>3, <2>1, <2>2 DEF CreateInputLayout, Reserved, LayoutInv
  <2>4. r \in [there : BOOLEAN, inputs : Nat, capacity : Nat, moved : Nat]
    BY <1>0, <2>2
  <2>5. r.there /\ r.capacity = MaxSemantics /\ r.moved = 0
    BY <1>0, <2>1, <2>2
  <2>6. r.capacity >= MaxSemantics /\ (r.inputs <= MaxSemantics => r.moved = 0)
    BY <1>0, <2>5
  <2>7. QED
    BY <1>2, <2>3, <2>4, <2>5, <2>6
<1>4. ASSUME NEW l \in Layouts, AddInput(l) PROVE LayoutInv'
  <2>1. PICK old \in [there : BOOLEAN, inputs : Nat, capacity : Nat, moved : Nat] :
           /\ old = layouts[l] /\ old.there /\ old.capacity >= MaxSemantics
           /\ old.inputs <= MaxSemantics => old.moved = 0
    BY <1>4 DEF AddInput, LayoutInv
  <2>2. PICK n, n1, c, c1, m1 \in Nat :
           /\ n = old.inputs /\ c = old.capacity /\ n1 = n + 1
           /\ c1 = IF n = c THEN n + 1 ELSE c
           /\ m1 = IF n = c THEN n ELSE old.moved
    <3>1. /\ old.inputs \in Nat /\ old.inputs + 1 \in Nat /\ old.capacity \in Nat
          /\ old.moved \in Nat
      OBVIOUS
    <3>2. /\ (IF old.inputs = old.capacity THEN old.inputs + 1 ELSE old.capacity) \in Nat
          /\ (IF old.inputs = old.capacity THEN old.inputs ELSE old.moved) \in Nat
      BY <3>1
    <3>3. QED
      BY <3>1, <3>2
  <2>3. PICK r : r = [old EXCEPT !.inputs = n1, !.capacity = c1, !.moved = m1]
    OBVIOUS
  <2>4. layouts' = [layouts EXCEPT ![l] = r]
    BY <1>4, <2>1, <2>2, <2>3 DEF AddInput, LayoutInv
  <2>5. r \in [there : BOOLEAN, inputs : Nat, capacity : Nat, moved : Nat]
    BY <2>2, <2>3
  <2>6. r.there /\ r.inputs = n1 /\ r.capacity = c1 /\ r.moved = m1
    BY <2>1, <2>2, <2>3
  <2>7. r.capacity >= MaxSemantics /\ (r.inputs <= MaxSemantics => r.moved = 0)
    BY <1>0, <2>1, <2>2, <2>6
  <2>8. QED
    BY <1>2, <2>4, <2>5, <2>6, <2>7
<1>5. QED
  BY <1>1, <1>3, <1>4 DEF Next, Application, Work, vars, maps, CreateRootSignature,
     AddConstant, AddDescriptor, AddDescriptorTable, AddDescriptorRange, Fill,
     CompileSignature, SubmitState, CreatePipelineState, Compile, CompileStates,
     CompileDone, Swap, TakeTask, Enter, GetRootSignature, GetInputLayout, CreateState,
     Reset, Works, Uses

\* However many inputs are added to whatever layouts, the names of a layout with
\* no more than MAX_INPUT_SEMANTICS of them never move.
THEOREM NamesNeverMove == Spec => []NamesStay
<1>1. Init => LayoutInv
  BY DEF Init, LayoutInv
<1>2. LayoutInv => NamesStay
  BY DEF LayoutInv, NamesStay
<1>3. QED
  BY <1>1, <1>2, LayoutStep, PTL DEF Spec

-----------------------------------------------------------------------------
(***************************************************************************)
(* Root signatures.                                                        *)
(***************************************************************************)

\* What was created was created once.
SigInv ==
    /\ DOMAIN sigs = Sigs
    /\ \A r \in Sigs : /\ DOMAIN sigs[r] = {"phase", "params", "ranges", "size", "made"}
                       /\ sigs[r].made # {} => sigs[r].phase = "made"

SigsStay == \A r \in Sigs : sigs[r].made # {} => sigs'[r].made = sigs[r].made

\* Every step keeps what is known of the signatures.
LEMMA SigStep == ASSUME SigInv, [Next]_vars PROVE SigInv' /\ SigsStay
<1>1. CASE UNCHANGED sigs
  BY <1>1 DEF SigInv, SigsStay
<1>2. ASSUME NEW r \in Sigs, NEW s, sigs' = [sigs EXCEPT ![r] = s],
             DOMAIN s = DOMAIN sigs[r], s.made # {} => s.phase = "made",
             sigs[r].made # {} => s.made = sigs[r].made
      PROVE  SigInv' /\ SigsStay
  BY <1>2 DEF SigInv, SigsStay
<1>3. ASSUME NEW r \in Sigs, CreateRootSignature(r) PROVE SigInv' /\ SigsStay
  <2>1. sigs' = [sigs EXCEPT ![r] = [sigs[r] EXCEPT !.phase = "open"]] /\ sigs[r].made = {}
    BY <1>3 DEF CreateRootSignature, SigInv
  <2>2. PICK s : s = [sigs[r] EXCEPT !.phase = "open"]
    OBVIOUS
  <2>3. DOMAIN s = DOMAIN sigs[r] /\ s.made = sigs[r].made
    BY <2>2 DEF SigInv
  <2>4. QED
    BY <1>2, <2>1, <2>2, <2>3
<1>4. ASSUME NEW r \in Sigs, NEW entry, NEW s, Fill(r, entry, s),
             DOMAIN s = DOMAIN sigs[r], s.made = sigs[r].made, s.phase = sigs[r].phase
      PROVE  SigInv' /\ SigsStay
  BY <1>1, <1>2, <1>4 DEF Fill, SigInv
<1>5. ASSUME NEW r \in Sigs,
             \/ \E n \in Values : AddConstant(r, n)
             \/ \E v \in Views : AddDescriptor(r, v)
             \/ AddDescriptorTable(r)
             \/ \E i \in 0..Len(sigs[r].ranges) - 1, t \in RangeTypes : AddDescriptorRange(r, i, t)
      PROVE  SigInv' /\ SigsStay
  <2>1. DOMAIN sigs[r] = {"phase", "params", "ranges", "size", "made"}
    BY DEF SigInv
  <2>2. ASSUME NEW n \in Values, AddConstant(r, n) PROVE SigInv' /\ SigsStay
    <3>1. PICK s : s = [sigs[r] EXCEPT !.size = @ + 1,
                                       !.params = Append(@, Param("CONSTANT", n))]
      OBVIOUS
    <3>2. PICK e : e = [op |-> "CONSTANT", value |-> n]
      OBVIOUS
    <3>3. Fill(r, e, s)
      BY <2>2, <3>1, <3>2 DEF AddConstant
    <3>4. DOMAIN s = DOMAIN sigs[r] /\ s.made = sigs[r].made /\ s.phase = sigs[r].phase
      BY <2>1, <3>1
    <3>5. QED
      BY <1>4, <3>3, <3>4
  <2>3. ASSUME NEW v \in Views, AddDescriptor(r, v) PROVE SigInv' /\ SigsStay
    <3>1. PICK s : s = [sigs[r] EXCEPT !.size = @ + ViewSize, !.params = Append(@, Param(v, 0))]
      OBVIOUS
    <3>2. PICK e : e = [op |-> v, value |-> 0]
      OBVIOUS
    <3>3. Fill(r, e, s)
      BY <2>3, <3>1, <3>2 DEF AddDescriptor
    <3>4. DOMAIN s = DOMAIN sigs[r] /\ s.made = sigs[r].made /\ s.phase = sigs[r].phase
      BY <2>1, <3>1
    <3>5. QED
      BY <1>4, <3>3, <3>4
  <2>4. ASSUME AddDescriptorTable(r) PROVE SigInv' /\ SigsStay
    <3>1. PICK s : s = [sigs[r] EXCEPT
                       !.size = @ + 1, !.ranges = Append(@, <<>>),
                       !.params = Append(@, Param("TABLE", Len(sigs[r].ranges)))]
      OBVIOUS
    <3>2. PICK e : e = [op |-> "TABLE", value |-> Len(sigs[r].ranges)]
      OBVIOUS
    <3>3. Fill(r, e, s)
      BY <2>4, <3>1, <3>2 DEF AddDescriptorTable
    <3>4. DOMAIN s = DOMAIN sigs[r] /\ s.made = sigs[r].made /\ s.phase = sigs[r].phase
      BY <2>1, <3>1
    <3>5. QED
      BY <1>4, <3>3, <3>4
  <2>5. ASSUME NEW i \in 0..Len(sigs[r].ranges) - 1, NEW t \in RangeTypes,
               AddDescriptorRange(r, i, t)
        PROVE  SigInv' /\ SigsStay
    BY <1>4, <2>1, <2>5 DEF AddDescriptorRange
  <2>6. QED
    BY <1>5, <2>2, <2>3, <2>4, <2>5
<1>6. ASSUME NEW r \in Sigs, CompileSignature(r) PROVE SigInv' /\ SigsStay
  <2>1. DOMAIN sigs[r] = {"phase", "params", "ranges", "size", "made"}
    BY DEF SigInv
  <2>2. CASE sigs' = [sigs EXCEPT ![r] = Failed(sigs[r])]
    <3>1. /\ DOMAIN Failed(sigs[r]) = DOMAIN sigs[r]
          /\ Failed(sigs[r]).made = sigs[r].made /\ Failed(sigs[r]).phase = sigs[r].phase
      BY <2>1 DEF Failed, Prepared
    <3>2. QED
      BY <1>2, <2>2, <3>1 DEF SigInv
  <2>3. CASE /\ sigs[r].phase = "open"
             /\ sigs' = [sigs EXCEPT ![r] =
                   [@ EXCEPT !.phase = "made", !.params = <<>>, !.ranges = <<>>,
                             !.made = {Prepared(sigs[r]).params}]]
    <3>1. PICK s : s = [sigs[r] EXCEPT !.phase = "made", !.params = <<>>, !.ranges = <<>>,
                                       !.made = {Prepared(sigs[r]).params}]
      OBVIOUS
    <3>2. DOMAIN s = DOMAIN sigs[r] /\ s.phase = "made" /\ sigs[r].made = {}
      BY <2>1, <2>3, <3>1 DEF SigInv
    <3>3. sigs' = [sigs EXCEPT ![r] = s]
      BY <2>3, <3>1
    <3>4. QED
      BY <1>2, <3>2, <3>3
  <2>4. CASE UNCHANGED sigs
    BY <1>1, <2>4
  <2>5. QED
    BY <1>6, <2>2, <2>3, <2>4 DEF CompileSignature
<1>7. QED
  BY <1>1, <1>3, <1>5, <1>6 DEF Next, Application, Work, vars, maps,
     CreateInputLayout, AddInput,
     SubmitState, CreatePipelineState, Compile, CompileStates,
     CompileDone, Swap, TakeTask, Enter, GetRootSignature, GetInputLayout, CreateState,
     Reset, Works, Uses

-----------------------------------------------------------------------------
(***************************************************************************)
(* Pipeline states.  As long as no state was submitted again while its     *)
(* task was under way, a state is in one place: once in a queue, or with   *)
(* one worker.                                                             *)
(***************************************************************************)
Fields ==
    /\ DOMAIN states = States
    /\ \A p \in States : /\ DOMAIN states[p] = {"phase", "object", "desc", "dx"}
                         /\ states[p].object \in Nat
    /\ gen \in [Slots -> Seq(States)]
    /\ at \in [Workers -> Steps] /\ task \in [Workers -> States]

Apart(queue) == \A s, u \in Slots : \A i \in DOMAIN queue[s], j \in DOMAIN queue[u] :
                   queue[s][i] = queue[u][j] => s = u /\ i = j

Working(w) == at[w] # "idle"

Once == /\ Apart(gen)
        /\ \A w, v \in Workers : Working(w) /\ Working(v) /\ task[w] = task[v] => w = v
        /\ \A w \in Workers : Working(w) => ~Waits(task[w])

\* A worker past the test of intermediate_ finds it, and no object yet.
Making ==
    \A w \in Workers :
        /\ at[w] \in {"sig", "layout", "create"} =>
              states[task[w]].phase = "open" /\ states[task[w]].object = 0
        /\ at[w] = "reset" => states[task[w]].phase = "open"

\* A state that has an object and still its description is with the worker that
\* is about to give it up.
Giving ==
    \A p \in States :
        /\ states[p].phase = "absent" => states[p].object = 0
        /\ states[p].phase = "open" /\ states[p].object > 0 =>
              \E w \in Workers : at[w] = "reset" /\ task[w] = p

StateInv == Fields /\ (overlap \/ (Once /\ Making /\ Giving))

StatesStay == \A p \in States :
                 states[p].object > 0 /\ ~overlap' => states'[p].object = states[p].object

-----------------------------------------------------------------------------
\* One state is added to a queue, or taken from its front.
LEMMA AddedApart ==
  ASSUME gen \in [Slots -> Seq(States)], Apart(gen), NEW p \in States, ~Waits(p),
         gen' = [gen EXCEPT ![0] = Append(@, p)]
  PROVE  /\ gen' \in [Slots -> Seq(States)] /\ Apart(gen')
         /\ \A s \in Slots : \A i \in DOMAIN gen'[s] :
               gen'[s][i] = p \/ (\E j \in DOMAIN gen[s] : gen'[s][i] = gen[s][j])
<1> DEFINE a == Append(gen[0], p)
<1>0. 0 \in Slots /\ gen[0] \in Seq(States)
  BY DEF Slots
<1>1. /\ DOMAIN gen[0] = 1..Len(gen[0]) /\ Len(gen[0]) \in Nat
      /\ DOMAIN a = 1..(Len(gen[0]) + 1) /\ a[Len(gen[0]) + 1] = p
      /\ \A i \in 1..Len(gen[0]) : a[i] = gen[0][i]
      /\ a \in Seq(States)
  BY <1>0
<1>2. gen' \in [Slots -> Seq(States)] /\ gen'[0] = a /\ \A s \in Slots : s # 0 => gen'[s] = gen[s]
  BY <1>0, <1>1
<1> HIDE DEF a
<1>3. \A i \in DOMAIN a : \/ i \in DOMAIN gen[0] /\ a[i] = gen[0][i]
                          \/ i = Len(gen[0]) + 1 /\ a[i] = p
  BY <1>1
<1>4. \A s \in Slots : \A i \in DOMAIN gen'[s] :
         \/ i \in DOMAIN gen[s] /\ gen'[s][i] = gen[s][i]
         \/ s = 0 /\ i = Len(gen[0]) + 1 /\ gen'[s][i] = p
  BY <1>2, <1>3
<1>5. \A s \in Slots : \A i \in DOMAIN gen[s] : gen[s][i] # p
  BY DEF Waits
<1>6. Apart(gen')
  <2> SUFFICES ASSUME NEW s \in Slots, NEW u \in Slots, NEW i \in DOMAIN gen'[s],
                      NEW j \in DOMAIN gen'[u], gen'[s][i] = gen'[u][j]
               PROVE  s = u /\ i = j
    BY DEF Apart
  <2>1. CASE gen'[s][i] = p
    <3>1. s = 0 /\ i = Len(gen[0]) + 1
      BY <1>4, <1>5, <2>1
    <3>2. u = 0 /\ j = Len(gen[0]) + 1
      BY <1>4, <1>5, <2>1
    <3>3. QED
      BY <3>1, <3>2
  <2>2. CASE gen'[s][i] # p
    <3>1. i \in DOMAIN gen[s] /\ j \in DOMAIN gen[u] /\ gen[s][i] = gen[u][j]
      BY <1>4, <2>2
    <3>2. QED
      BY <3>1 DEF Apart
  <2>3. QED
    BY <2>1, <2>2
<1>7. QED
  BY <1>2, <1>4, <1>6

\* What a worker takes from the queue is not in it any more.
LEMMA TakenApart ==
  ASSUME gen \in [Slots -> Seq(States)], Apart(gen), gen[0] # <<>>,
         gen' = [gen EXCEPT ![0] = Tail(@)]
  PROVE  /\ gen' \in [Slots -> Seq(States)] /\ Apart(gen')
         /\ \A s \in Slots : \A i \in DOMAIN gen'[s] : \E j \in DOMAIN gen[s] : gen'[s][i] = gen[s][j]
         /\ Head(gen[0]) \in States /\ Waits(Head(gen[0]))
         /\ \A s \in Slots : \A i \in DOMAIN gen'[s] : gen'[s][i] # Head(gen[0])
<1> DEFINE a == Tail(gen[0])
<1>0. 0 \in Slots /\ gen[0] \in Seq(States)
  BY DEF Slots
<1>1. /\ DOMAIN gen[0] = 1..Len(gen[0]) /\ Len(gen[0]) \in Nat \ {0}
      /\ DOMAIN a = 1..(Len(gen[0]) - 1) /\ a \in Seq(States)
      /\ \A i \in 1..(Len(gen[0]) - 1) : a[i] = gen[0][i + 1]
      /\ Head(gen[0]) = gen[0][1] /\ Head(gen[0]) \in States
  BY <1>0
<1>2. gen' \in [Slots -> Seq(States)] /\ gen'[0] = a /\ \A s \in Slots : s # 0 => gen'[s] = gen[s]
  BY <1>0, <1>1
<1> HIDE DEF a
<1>3. \A i \in DOMAIN a : i + 1 \in DOMAIN gen[0] /\ a[i] = gen[0][i + 1] /\ i \in Nat \ {0}
  BY <1>1
<1>4. 1 \in DOMAIN gen[0]
  BY <1>1
<1>5. \A s \in Slots : \A i \in DOMAIN gen'[s] :
         \/ s # 0 /\ i \in DOMAIN gen[s] /\ gen'[s][i] = gen[s][i]
         \/ s = 0 /\ i \in Nat \ {0} /\ i + 1 \in DOMAIN gen[0] /\ gen'[s][i] = gen[0][i + 1]
  BY <1>2, <1>3
<1>6. Apart(gen')
  <2> SUFFICES ASSUME NEW s \in Slots, NEW u \in Slots, NEW i \in DOMAIN gen'[s],
                      NEW j \in DOMAIN gen'[u], gen'[s][i] = gen'[u][j]
               PROVE  s = u /\ i = j
    BY DEF Apart
  <2>1. CASE s # 0 /\ u # 0
    BY <1>5, <2>1 DEF Apart
  <2>2. CASE s = 0 /\ u = 0
    <3>1. i + 1 = j + 1 /\ i \in Nat /\ j \in Nat
      BY <1>0, <1>5, <2>2 DEF Apart
    <3>2. QED
      BY <2>2, <3>1
  <2>3. CASE s # 0 /\ u = 0
    BY <1>0, <1>5, <2>3 DEF Apart
  <2>4. CASE s = 0 /\ u # 0
    BY <1>0, <1>5, <2>4 DEF Apart
  <2>5. QED
    BY <2>1, <2>2, <2>3, <2>4
<1>7. \A s \in Slots : \A i \in DOMAIN gen'[s] : gen'[s][i] # gen[0][1]
  <2> SUFFICES ASSUME NEW s \in Slots, NEW i \in DOMAIN gen'[s], gen'[s][i] = gen[0][1]
               PROVE  FALSE
    OBVIOUS
  <2>1. s = 0 /\ i \in Nat \ {0} /\ i + 1 = 1
    BY <1>0, <1>4, <1>5 DEF Apart
  <2>2. QED
    BY <2>1
<1>8. Waits(Head(gen[0]))
  BY <1>0, <1>1, <1>4 DEF Waits
<1>9. \A s \in Slots : \A i \in DOMAIN gen'[s] : \E j \in DOMAIN gen[s] : gen'[s][i] = gen[s][j]
  BY <1>5
<1>10. QED
  BY <1>1, <1>2, <1>6, <1>7, <1>8, <1>9

-----------------------------------------------------------------------------
\* Steps that touch neither a state nor a task.
LEMMA SameState ==
  ASSUME StateInv, UNCHANGED <<states, gen, at, task, overlap>>
  PROVE  StateInv' /\ StatesStay
<1>1. Fields' /\ StatesStay
  BY DEF StateInv, Fields, StatesStay
<1>2. Once => Once'
  BY DEF Once, Apart, Waits, Working
<1>3. Making => Making'
  BY DEF Making
<1>4. Giving => Giving'
  BY DEF Giving
<1>5. QED
  BY <1>1, <1>2, <1>3, <1>4 DEF StateInv

\* The creation of a state keeps what is known of the states.
LEMMA CreateKeeps ==
  ASSUME StateInv, NEW p \in States, NEW d \in Descs, CreatePipelineState(p, d)
  PROVE  StateInv' /\ StatesStay
<1>1. /\ states[p].phase = "absent" /\ UNCHANGED <<gen, at, task, overlap>>
      /\ states' = [states EXCEPT ![p] = [states[p] EXCEPT !.phase = "open", !.desc = {d}]]
  BY DEF CreatePipelineState, Calls, workers, history, StateInv, Fields
<1>2. PICK q : q = [states[p] EXCEPT !.phase = "open", !.desc = {d}]
  OBVIOUS
<1>3. DOMAIN q = DOMAIN states[p] /\ q.object = states[p].object /\ q.phase = "open"
  BY <1>2 DEF StateInv, Fields
<1>4. states' = [states EXCEPT ![p] = q]
  BY <1>1, <1>2
<1>5. Fields'
  BY <1>1, <1>3, <1>4 DEF StateInv, Fields
<1>6. states'[p] = q /\ \A r \in States : r # p => states'[r] = states[r]
  BY <1>4 DEF StateInv, Fields
<1>7. StatesStay
  BY <1>3, <1>6 DEF StatesStay
<1>8. Once => Once'
  BY <1>1 DEF Once, Apart, Waits, Working
<1>9. Making => Making'
  BY <1>1, <1>3, <1>6 DEF Making, StateInv, Fields
<1>10. Giving => Giving'
  BY <1>1, <1>3, <1>6 DEF Giving
<1>11. QED
  BY <1>1, <1>5, <1>7, <1>8, <1>9, <1>10 DEF StateInv

\* The submission of a state to the workers keeps it.
LEMMA SubmitKeeps ==
  ASSUME StateInv, NEW p \in States, SubmitState(p)
  PROVE  StateInv' /\ StatesStay
<1>1. /\ UNCHANGED <<states, at, task>>
      /\ gen' = [gen EXCEPT ![0] = Append(@, p)]
      /\ overlap' = (overlap \/ p \in UnderWay)
  BY DEF SubmitState, maps, workers, CompileSlot
<1>2. Fields'
  <2>1. gen' \in [Slots -> Seq(States)]
    BY <1>1 DEF StateInv, Fields, Slots
  <2>2. QED
    BY <1>1, <2>1 DEF StateInv, Fields
<1>3. StatesStay
  BY <1>1 DEF StatesStay
<1>4. ASSUME ~overlap, p \notin UnderWay, Once, Making, Giving PROVE (Once /\ Making /\ Giving)'
  <2>1. ~Waits(p) /\ \A w \in Workers : ~(Working(w) /\ task[w] = p)
    BY <1>4 DEF UnderWay, Working
  <2>2. /\ Apart(gen')
        /\ \A s \in Slots : \A i \in DOMAIN gen'[s] :
              gen'[s][i] = p \/ (\E j \in DOMAIN gen[s] : gen'[s][i] = gen[s][j])
    <3>1. gen \in [Slots -> Seq(States)] /\ Apart(gen)
      BY <1>4 DEF Once, StateInv, Fields
    <3>2. QED
      BY <1>1, <2>1, <3>1, AddedApart
  <2>3. \A r \in States : r # p /\ ~Waits(r) => ~Waits(r)'
    BY <2>2 DEF Waits
  <2>4. Once'
    BY <1>1, <1>4, <2>1, <2>2, <2>3 DEF Once, Working, Apart, StateInv, Fields
  <2>5. Making' /\ Giving'
    BY <1>1, <1>4 DEF Making, Giving
  <2>6. QED
    BY <2>4, <2>5
<1>5. QED
  BY <1>1, <1>2, <1>3, <1>4 DEF StateInv

\* A swap of the queues keeps it.
LEMMA SwapKeeps == ASSUME StateInv, Swap PROVE StateInv' /\ StatesStay
<1>1. /\ UNCHANGED <<states, at, task, overlap>> /\ \A w \in Workers : ~Working(w)
      /\ gen' \in {Rotated(gen), [s \in Slots |-> <<>>]}
  BY DEF Swap, maps, workers, Working
<1>2. gen' \in [Slots -> Seq(States)]
  <2>1. \A s \in Slots : (s + 1) % 3 \in Slots
    BY DEF Slots
  <2>2. gen \in [Slots -> Seq(States)]
    BY DEF StateInv, Fields
  <2>3. Rotated(gen) \in [Slots -> Seq(States)]
    BY <2>1, <2>2 DEF Rotated
  <2>4. [s \in Slots |-> <<>>] \in [Slots -> Seq(States)]
    OBVIOUS
  <2>5. QED
    BY <1>1, <2>3, <2>4
<1>3. ASSUME Apart(gen) PROVE Apart(gen')
  <2>1. CASE gen' = [s \in Slots |-> <<>>]
    BY <2>1 DEF Apart
  <2>2. CASE gen' = Rotated(gen)
    <3>1. \A s \in Slots : (s + 1) % 3 \in Slots
      BY DEF Slots
    <3>2. \A s, u \in Slots : (s + 1) % 3 = (u + 1) % 3 => s = u
      BY DEF Slots
    <3>3. QED
      BY <1>3, <2>2, <3>1, <3>2 DEF Apart, Rotated
  <2>3. QED
    BY <1>1, <2>1, <2>2
<1>4. StatesStay
  BY <1>1 DEF StatesStay
<1>5. Once => Once'
  BY <1>1, <1>3 DEF Once, Working, Apart
<1>6. (Making => Making') /\ (Giving => Giving')
  BY <1>1 DEF Making, Giving
<1>7. QED
  BY <1>1, <1>2, <1>4, <1>5, <1>6 DEF StateInv, Fields

-----------------------------------------------------------------------------
\* A worker that takes a state keeps it.
LEMMA TakeKeeps ==
  ASSUME StateInv, NEW w \in Workers, TakeTask(w)
  PROVE  StateInv' /\ StatesStay
<1>1. /\ at[w] = "idle" /\ gen[0] # <<>>
      /\ gen' = [gen EXCEPT ![0] = Tail(@)]
      /\ task' = [task EXCEPT ![w] = Head(gen[0])]
      /\ at' = [at EXCEPT ![w] = "enter"]
      /\ UNCHANGED <<states, overlap>>
  BY DEF TakeTask, Works, history, Go
<1>2. Head(gen[0]) \in States /\ gen' \in [Slots -> Seq(States)]
  <2>1. gen[0] \in Seq(States) /\ 0 \in Slots
    BY DEF StateInv, Fields, Slots
  <2>2. Tail(gen[0]) \in Seq(States) /\ Head(gen[0]) \in States
    BY <1>1, <2>1
  <2>3. QED
    BY <1>1, <2>1, <2>2 DEF StateInv, Fields
<1>3. /\ at'[w] = "enter" /\ task'[w] = Head(gen[0])
      /\ \A v \in Workers : v # w => at'[v] = at[v] /\ task'[v] = task[v]
  BY <1>1 DEF StateInv, Fields
<1>4. Fields' /\ StatesStay
  BY <1>1, <1>2 DEF StateInv, Fields, Steps, StatesStay
<1>5. ASSUME Once PROVE Once'
  <2>0. PICK p \in States : p = Head(gen[0])
    BY <1>2
  <2>1. /\ Apart(gen') /\ Waits(p)
        /\ \A s \in Slots : \A i \in DOMAIN gen'[s] : gen'[s][i] # p
        /\ \A s \in Slots : \A i \in DOMAIN gen'[s] : \E j \in DOMAIN gen[s] : gen'[s][i] = gen[s][j]
    <3>1. gen \in [Slots -> Seq(States)] /\ Apart(gen)
      BY <1>5 DEF Once, StateInv, Fields
    <3>2. QED
      BY <1>1, <2>0, <3>1, TakenApart
  <2>2. ~Waits(p)'
    BY <2>1 DEF Waits
  <2>3. \A r \in States : ~Waits(r) => ~Waits(r)'
    BY <2>1 DEF Waits
  <2>4. \A v \in Workers : Working(v) => task[v] # p
    BY <1>5, <2>1 DEF Once
  <2>5. \A v \in Workers : v # w => (Working(v)' <=> Working(v))
    BY <1>3 DEF Working
  <2>6. \A v, u \in Workers : Working(v)' /\ Working(u)' /\ task'[v] = task'[u] => v = u
    BY <1>3, <1>5, <2>0, <2>4, <2>5 DEF Once
  <2>7. \A v \in Workers : Working(v)' =>
           \A s \in Slots : \A i \in DOMAIN gen'[s] : gen'[s][i] # task'[v]
    <3>1. \A v \in Workers : v # w /\ Working(v) => ~Waits(task[v])'
      <4>1. \A v \in Workers : task[v] \in States
        BY DEF StateInv, Fields
      <4>2. \A r \in States : ~Waits(r) =>
               \A s \in Slots : \A i \in DOMAIN gen'[s] : gen'[s][i] # r
        BY <2>3 DEF Waits
      <4>3. \A v \in Workers : v # w => task'[v] = task[v]
        BY <1>3
      <4>4. QED
        BY <1>5, <4>1, <4>2, <4>3 DEF Once, Waits
    <3>2. QED
      BY <1>3, <2>0, <2>1, <2>5, <3>1 DEF Waits
  <2>8. QED
    BY <2>1, <2>6, <2>7 DEF Once, Apart, Waits
<1>6. Making => Making'
  BY <1>1, <1>3 DEF Making
<1>7. Giving => Giving'
  BY <1>1, <1>3 DEF Giving
<1>8. QED
  BY <1>1, <1>4, <1>5, <1>6, <1>7 DEF StateInv

\* A worker that goes on, or is done, with the state it has.
LEMMA OneFewer ==
  ASSUME StateInv, Once, NEW w \in Workers, NEW step \in Steps, Working(w),
         at' = [at EXCEPT ![w] = step], gen' = gen,
         task' = task \/ (step = "idle" /\ \E p : task' = [task EXCEPT ![w] = p])
  PROVE  Once'
<1>1. /\ at'[w] = step /\ (step # "idle" => task'[w] = task[w])
      /\ \A v \in Workers : v # w => at'[v] = at[v] /\ task'[v] = task[v]
  BY DEF StateInv, Fields
<1>2. \A v \in Workers : Working(v)' => Working(v) /\ task'[v] = task[v]
  BY <1>1 DEF Working
<1>3. QED
  BY <1>2 DEF Once, Apart, Waits

\* enter: the state is still to be made.
LEMMA EnterKeeps ==
  ASSUME StateInv, NEW w \in Workers, Enter(w)
  PROVE  StateInv' /\ StatesStay
<1>1. /\ at[w] = "enter" /\ UNCHANGED <<states, gen, overlap>>
      /\ \/ /\ states[task[w]].phase = "open"
            /\ at' = [at EXCEPT ![w] = "sig"] /\ task' = task
         \/ at' = [at EXCEPT ![w] = "idle"] /\ task' = [task EXCEPT ![w] = NoState]
  BY DEF Enter, Works, history, ToCreate, Go, Finish
<1>2. NoState \in States /\ task[w] \in States
  BY PipelineAssumption DEF NoState, StateInv, Fields
<1>3. Fields' /\ StatesStay
  BY <1>1, <1>2 DEF StateInv, Fields, Steps, StatesStay
<1>4. \A v \in Workers : v # w => at'[v] = at[v] /\ task'[v] = task[v]
  BY <1>1 DEF StateInv, Fields
<1>5. Once => Once'
  BY <1>1, OneFewer DEF Steps, Working
<1>6. ASSUME Once, Making, Giving PROVE Making'
  <2>1. CASE states[task[w]].phase = "open" /\ at' = [at EXCEPT ![w] = "sig"] /\ task' = task
    <3>1. states[task[w]].object = 0
      <4>1. \A v \in Workers : ~(at[v] = "reset" /\ task[v] = task[w])
        BY <1>1, <1>6 DEF Once, Working
      <4>2. ~(states[task[w]].object > 0)
        BY <1>2, <1>6, <2>1, <4>1 DEF Giving
      <4>3. states[task[w]].object \in Nat
        BY <1>2 DEF StateInv, Fields
      <4>4. QED
        BY <4>2, <4>3
    <3>2. at'[w] = "sig"
      BY <2>1 DEF StateInv, Fields
    <3>3. QED
      BY <1>1, <1>4, <1>6, <2>1, <3>1, <3>2 DEF Making
  <2>2. CASE at' = [at EXCEPT ![w] = "idle"]
    <3>1. at'[w] = "idle"
      BY <2>2 DEF StateInv, Fields
    <3>2. QED
      BY <1>1, <1>4, <1>6, <3>1 DEF Making
  <2>3. QED
    BY <1>1, <2>1, <2>2
<1>7. Giving => Giving'
  BY <1>1, <1>4 DEF Giving
<1>8. QED
  BY <1>1, <1>3, <1>5, <1>6, <1>7 DEF StateInv

\* The two lookups: the description is there.
LEMMA LookupKeeps ==
  ASSUME StateInv, NEW w \in Workers, GetRootSignature(w) \/ GetInputLayout(w)
  PROVE  StateInv' /\ StatesStay /\ (crashed' = "reset" => overlap \/ crashed = "reset")
<1>1. /\ at[w] \in {"sig", "layout"} /\ UNCHANGED <<gen, overlap, states, task>>
      /\ \/ UNCHANGED at /\ (crashed' = "reset" => ~Described(w))
         \/ /\ \/ at[w] = "sig" /\ at' = [at EXCEPT ![w] = "layout"]
               \/ at[w] = "layout" /\ at' = [at EXCEPT ![w] = "create"]
            /\ crashed' = crashed /\ Described(w)
  BY DEF GetRootSignature, GetInputLayout, Uses, Works, history, Go, Crash, workers
<1>2. overlap \/ Described(w)
  BY <1>1 DEF StateInv, Making, Described
<1>3. CASE UNCHANGED at
  BY <1>1, <1>2, <1>3, SameState
<1>4. CASE \/ at[w] = "sig" /\ at' = [at EXCEPT ![w] = "layout"]
           \/ at[w] = "layout" /\ at' = [at EXCEPT ![w] = "create"]
  <2>1. \A v \in Workers : v # w => at'[v] = at[v]
    BY <1>4 DEF StateInv, Fields
  <2>2. at'[w] \in {"layout", "create"} /\ at' \in [Workers -> Steps]
    BY <1>4 DEF StateInv, Fields, Steps
  <2>3. Fields' /\ StatesStay
    BY <1>1, <2>2 DEF StateInv, Fields, StatesStay
  <2>4. Once => Once'
    BY <1>1, <1>4, OneFewer DEF Steps, Working
  <2>5. Making => Making'
    BY <1>1, <2>1, <2>2 DEF Making
  <2>6. Giving => Giving'
    <3>1. at[w] # "reset"
      BY <1>1
    <3>2. QED
      BY <1>1, <2>1, <3>1 DEF Giving
  <2>7. QED
    BY <1>1, <1>2, <1>4, <2>3, <2>4, <2>5, <2>6 DEF StateInv
<1>5. QED
  BY <1>1, <1>3, <1>4

\* create: the state gets its first object.
LEMMA CreateStateKeeps ==
  ASSUME StateInv, NEW w \in Workers, CreateState(w)
  PROVE  StateInv' /\ StatesStay /\ (crashed' = "reset" => overlap \/ crashed = "reset")
<1> DEFINE p == task[w]
<1>1. at[w] = "create" /\ UNCHANGED <<gen, overlap, task>> /\ p \in States
  BY DEF CreateState, Uses, Works, history, Crash, workers, StateInv, Fields
<1>2. overlap \/ Described(w)
  BY <1>1 DEF StateInv, Making, Described
<1>3. CASE UNCHANGED <<states, at>> /\ (crashed' = "reset" => ~Described(w))
  BY <1>1, <1>2, <1>3, SameState
<1>4. ASSUME NEW q, at' = [at EXCEPT ![w] = "reset"], states' = [states EXCEPT ![p] = q],
             DOMAIN q = DOMAIN states[p], q.object = states[p].object + 1,
             q.phase = states[p].phase, q.phase = "open", crashed' = crashed
      PROVE  StateInv' /\ StatesStay /\ (crashed' = "reset" => overlap \/ crashed = "reset")
  <2>1. /\ at'[w] = "reset" /\ \A v \in Workers : v # w => at'[v] = at[v]
    BY <1>4 DEF StateInv, Fields
  <2>2. states'[p] = q /\ \A r \in States : r # p => states'[r] = states[r]
    BY <1>1, <1>4 DEF StateInv, Fields
  <2>3. q.object \in Nat /\ q.object > 0
    BY <1>1, <1>4 DEF StateInv, Fields
  <2>4. Fields'
    <3>1. DOMAIN states' = States
      BY <1>4 DEF StateInv, Fields
    <3>2. at' \in [Workers -> Steps]
      BY <1>4 DEF StateInv, Fields, Steps
    <3>3. \A r \in States : /\ DOMAIN states'[r] = {"phase", "object", "desc", "dx"}
                            /\ states'[r].object \in Nat
      BY <1>1, <1>4, <2>2, <2>3 DEF StateInv, Fields
    <3>4. QED
      BY <1>1, <3>1, <3>2, <3>3 DEF StateInv, Fields
  <2>5. StatesStay
    <3>1. overlap \/ states[p].object = 0
      BY <1>1 DEF StateInv, Making
    <3>2. QED
      BY <1>1, <2>2, <3>1 DEF StatesStay
  <2>6. Once => Once'
    BY <1>1, <1>4, OneFewer DEF Steps, Working
  <2>7. ASSUME Once, Making PROVE Making'
    <3>1. \A v \in Workers : v # w /\ at[v] # "idle" => task[v] # p
      BY <1>1, <2>7 DEF Once, Working
    <3>2. ASSUME NEW v \in Workers, v # w, at[v] # "idle"
          PROVE  at'[v] = at[v] /\ states'[task'[v]] = states[task[v]]
      <4>1. task[v] \in States /\ task[v] # p
        BY <3>1, <3>2 DEF StateInv, Fields
      <4>2. QED
        BY <1>1, <2>1, <2>2, <3>2, <4>1
    <3>3. states'[task'[w]].phase = "open"
      BY <1>1, <1>4, <2>2
    <3>4. QED
      BY <2>1, <2>7, <3>2, <3>3 DEF Making
  <2>8. Giving => Giving'
    <3>1. ASSUME Giving, NEW r \in States
          PROVE  /\ states'[r].phase = "absent" => states'[r].object = 0
                 /\ states'[r].phase = "open" /\ states'[r].object > 0 =>
                       \E v \in Workers : at'[v] = "reset" /\ task'[v] = r
      <4>1. CASE r = p
        BY <1>1, <1>4, <2>1, <2>2, <4>1
      <4>2. CASE r # p
        BY <1>1, <2>1, <2>2, <3>1, <4>2 DEF Giving
      <4>3. QED
        BY <4>1, <4>2
    <3>2. QED
      BY <3>1 DEF Giving
  <2>9. QED
    BY <1>1, <1>4, <2>4, <2>5, <2>6, <2>7, <2>8 DEF StateInv
<1>5. CASE /\ at' = [at EXCEPT ![w] = "reset"] /\ crashed' = crashed /\ Described(w)
           /\ \E x : states' = [states EXCEPT ![p] = [states[p] EXCEPT !.object = @ + 1, !.dx = x]]
  <2>1. PICK x : states' = [states EXCEPT ![p] = [states[p] EXCEPT !.object = @ + 1, !.dx = x]]
    BY <1>5
  <2>2. PICK q : q = [states[p] EXCEPT !.object = @ + 1, !.dx = x]
    OBVIOUS
  <2>3. DOMAIN q = DOMAIN states[p] /\ q.object = states[p].object + 1
        /\ q.phase = states[p].phase
    BY <1>1, <2>2 DEF StateInv, Fields
  <2>4. q.phase = "open"
    BY <1>5, <2>3 DEF Described
  <2>5. states' = [states EXCEPT ![p] = q]
    BY <2>1, <2>2
  <2>6. QED
    BY <1>4, <1>5, <2>3, <2>4, <2>5
<1>6. QED
  <2>1. \/ UNCHANGED <<states, at>> /\ (crashed' = "reset" => ~Described(w))
        \/ /\ at' = [at EXCEPT ![w] = "reset"] /\ crashed' = crashed /\ Described(w)
           /\ states' = [states EXCEPT
                 ![p].object = @ + 1,
                 ![p].dx = {[sig |-> desc[w].sig, dx |-> Converted(DescOf(w))]}]
    BY DEF CreateState, Crash, workers, Go
  <2>2. ASSUME states' = [states EXCEPT
                 ![p].object = @ + 1,
                 ![p].dx = {[sig |-> desc[w].sig, dx |-> Converted(DescOf(w))]}]
        PROVE  \E x : states' = [states EXCEPT ![p] = [states[p] EXCEPT !.object = @ + 1, !.dx = x]]
    <3>1. PICK x : x = {[sig |-> desc[w].sig, dx |-> Converted(DescOf(w))]}
      OBVIOUS
    <3>2. states' = [states EXCEPT ![p] = [states[p] EXCEPT !.object = @ + 1, !.dx = x]]
      BY <1>1, <2>2, <3>1 DEF StateInv, Fields
    <3>3. QED
      BY <3>2
  <2>3. QED
    BY <1>3, <1>5, <2>1, <2>2

\* The description is given up by the one worker that has the state.
LEMMA ResetKeeps ==
  ASSUME StateInv, NEW w \in Workers, Reset(w)
  PROVE  StateInv' /\ StatesStay
<1> DEFINE p == task[w]
<1>1. /\ at[w] = "reset" /\ UNCHANGED <<gen, overlap>> /\ p \in States
      /\ states' = [states EXCEPT ![p] = [states[p] EXCEPT !.phase = "made"]]
      /\ at' = [at EXCEPT ![w] = "idle"] /\ task' = [task EXCEPT ![w] = NoState]
  BY DEF Reset, Uses, Works, history, Finish, Go, PhaseAfter, StateInv, Fields
<1>2. PICK q : q = [states[p] EXCEPT !.phase = "made"]
  OBVIOUS
<1>3. DOMAIN q = DOMAIN states[p] /\ q.object = states[p].object /\ q.phase = "made"
  BY <1>1, <1>2 DEF StateInv, Fields
<1>4. states'[p] = q /\ \A r \in States : r # p => states'[r] = states[r]
  BY <1>1, <1>2 DEF StateInv, Fields
<1>5. /\ at'[w] = "idle" /\ \A v \in Workers : v # w => at'[v] = at[v] /\ task'[v] = task[v]
  BY <1>1 DEF StateInv, Fields
<1>6. Fields'
  <2>1. DOMAIN states' = States
    BY <1>1 DEF StateInv, Fields
  <2>2. at' \in [Workers -> Steps]
    BY <1>1 DEF StateInv, Fields, Steps
  <2>3. \A r \in States : /\ DOMAIN states'[r] = {"phase", "object", "desc", "dx"}
                          /\ states'[r].object \in Nat
    BY <1>1, <1>3, <1>4 DEF StateInv, Fields
  <2>4. task' \in [Workers -> States]
    <3>1. NoState \in States
      BY PipelineAssumption DEF NoState
    <3>2. QED
      BY <1>1, <3>1 DEF StateInv, Fields
  <2>5. QED
    BY <1>1, <2>1, <2>2, <2>3, <2>4 DEF StateInv, Fields
<1>7. StatesStay
  BY <1>3, <1>4 DEF StatesStay
<1>8. Once => Once'
  BY <1>1, OneFewer DEF Steps, Working
<1>9. ASSUME Once, Making PROVE Making'
  <2>1. \A v \in Workers : v # w /\ at[v] # "idle" => task[v] # p
    BY <1>1, <1>9 DEF Once, Working
  <2>2. ASSUME NEW v \in Workers, v # w, at[v] # "idle"
        PROVE  at'[v] = at[v] /\ states'[task'[v]] = states[task[v]]
    <3>1. task[v] \in States /\ task[v] # p
      BY <2>1, <2>2 DEF StateInv, Fields
    <3>2. QED
      BY <1>4, <1>5, <2>2, <3>1
  <2>3. QED
    BY <1>5, <1>9, <2>2 DEF Making
<1>10. Giving => Giving'
  <2>1. ASSUME Giving, NEW r \in States
        PROVE  /\ states'[r].phase = "absent" => states'[r].object = 0
               /\ states'[r].phase = "open" /\ states'[r].object > 0 =>
                     \E v \in Workers : at'[v] = "reset" /\ task'[v] = r
    <3>1. CASE r = p
      BY <1>3, <1>4, <3>1
    <3>2. CASE r # p
      <4>1. states'[r] = states[r]
        BY <1>4, <3>2
      <4>2. \A v \in Workers : task[v] = r => v # w
        BY <3>2
      <4>3. QED
        BY <1>5, <2>1, <4>1, <4>2 DEF Giving
    <3>3. QED
      BY <3>1, <3>2
  <2>2. QED
    BY <2>1 DEF Giving
<1>11. QED
  BY <1>1, <1>6, <1>7, <1>8, <1>9, <1>10 DEF StateInv

-----------------------------------------------------------------------------
\* Only the three steps that read the description can find it gone.
CrashInv == crashed = "reset" => overlap

\* Every step keeps it.
LEMMA StateStep ==
  ASSUME StateInv, CrashInv, [Next]_vars
  PROVE  StateInv' /\ CrashInv' /\ StatesStay
<1>1. CASE UNCHANGED vars
  BY <1>1, SameState DEF vars, maps, workers, history, CrashInv
<1>2. ASSUME Next PROVE overlap => overlap'
  BY <1>2 DEF Next, Application, Work, CreateRootSignature,
     AddConstant, AddDescriptor, AddDescriptorTable, AddDescriptorRange, Fill,
     CompileSignature, SubmitState, CreatePipelineState, CreateInputLayout, AddInput,
     Compile, CompileStates, CompileDone, Swap, TakeTask, Enter, GetRootSignature,
     GetInputLayout, CreateState, Reset, Works, Uses, history
<1>3. ASSUME Next, NEW w \in Workers, Work(w)
      PROVE  StateInv' /\ CrashInv' /\ StatesStay
  <2>1. CASE TakeTask(w) \/ Enter(w) \/ Reset(w)
    <3>1. crashed' = crashed
      BY <2>1 DEF TakeTask, Enter, Reset
    <3>2. QED
      BY <1>2, <1>3, <2>1, <3>1, TakeKeeps, EnterKeeps, ResetKeeps DEF CrashInv
  <2>2. CASE GetRootSignature(w) \/ GetInputLayout(w) \/ CreateState(w)
    <3>1. StateInv' /\ StatesStay /\ (crashed' = "reset" => overlap \/ crashed = "reset")
      BY <2>2, LookupKeeps, CreateStateKeeps
    <3>2. QED
      BY <1>2, <1>3, <3>1 DEF CrashInv
  <2>3. QED
    BY <1>3, <2>1, <2>2 DEF Work
<1>4. ASSUME Next, NEW p \in States,
             SubmitState(p) \/ (\E d \in Descs : CreatePipelineState(p, d)) \/ Swap
      PROVE  StateInv' /\ CrashInv' /\ StatesStay
  <2>1. crashed' = crashed
    BY <1>4 DEF SubmitState, CreatePipelineState, Swap
  <2>2. QED
    BY <1>2, <1>4, <2>1, SubmitKeeps, CreateKeeps, SwapKeeps DEF CrashInv
<1>5. ASSUME Next, UNCHANGED <<states, gen, at, task, overlap>>, crashed' # "reset"
      PROVE  StateInv' /\ CrashInv' /\ StatesStay
  BY <1>5, SameState DEF CrashInv
<1>6. ASSUME Next,
             \/ \E r \in Sigs :
                   \/ CreateRootSignature(r)
                   \/ \E n \in Values : AddConstant(r, n)
                   \/ \E v \in Views : AddDescriptor(r, v)
                   \/ AddDescriptorTable(r)
                   \/ \E i \in 0..Len(sigs[r].ranges) - 1, t \in RangeTypes :
                         AddDescriptorRange(r, i, t)
                   \/ CompileSignature(r)
             \/ \E l \in Layouts : CreateInputLayout(l) \/ AddInput(l)
             \/ Compile \/ CompileStates \/ CompileDone
      PROVE  StateInv' /\ CrashInv' /\ StatesStay
  <2>1. crashed = "none"
    BY <1>6 DEF Next
  <2>2. ASSUME NEW r \in Sigs, NEW entry, NEW s, Fill(r, entry, s)
        PROVE  StateInv' /\ CrashInv' /\ StatesStay
    <3>1. UNCHANGED <<states, gen, at, task, overlap>> /\ crashed' # "reset"
      BY <2>1, <2>2 DEF Fill, Calls, workers
    <3>2. QED
      BY <1>5, <1>6, <3>1
  <2>3. ASSUME NEW r \in Sigs, CreateRootSignature(r) \/ CompileSignature(r)
        PROVE  StateInv' /\ CrashInv' /\ StatesStay
    <3>1. UNCHANGED <<states, gen, at, task, overlap>> /\ crashed' # "reset"
      BY <2>1, <2>3 DEF CreateRootSignature, CompileSignature, Calls, workers, history
    <3>2. QED
      BY <1>5, <1>6, <3>1
  <2>4. CASE (\E l \in Layouts : CreateInputLayout(l) \/ AddInput(l))
             \/ Compile \/ CompileStates \/ CompileDone
    <3>1. UNCHANGED <<states, gen, at, task, overlap>> /\ crashed' # "reset"
      BY <2>1, <2>4 DEF CreateInputLayout, AddInput, Compile, CompileStates, CompileDone, Calls,
         maps, workers, history
    <3>2. QED
      BY <1>5, <1>6, <3>1
  <2>5. ASSUME NEW r \in Sigs,
               \/ \E n \in Values : AddConstant(r, n)
               \/ \E v \in Views : AddDescriptor(r, v)
               \/ AddDescriptorTable(r)
               \/ \E i \in 0..Len(sigs[r].ranges) - 1, t \in RangeTypes :
                     AddDescriptorRange(r, i, t)
        PROVE  \E entry, s : Fill(r, entry, s)
    BY <2>5 DEF AddConstant, AddDescriptor, AddDescriptorTable, AddDescriptorRange
  <2>6. QED
    BY <1>6, <2>2, <2>3, <2>4, <2>5
<1>7. QED
  BY <1>1, <1>3, <1>4, <1>6, PipelineAssumption DEF Next, Application

\* It holds at the start.
LEMMA InitState == Init => StateInv /\ CrashInv /\ SigInv
<1> SUFFICES ASSUME Init PROVE StateInv /\ CrashInv /\ SigInv
  OBVIOUS
<1>1. NoState \in States
  BY PipelineAssumption DEF NoState
<1>2. Fields
  BY <1>1 DEF Init, Fields, Steps
<1>3. Once /\ Making /\ Giving
  BY DEF Init, Once, Apart, Working, Waits, Making, Giving
<1>4. QED
  BY <1>2, <1>3 DEF Init, StateInv, CrashInv, SigInv

\* A worker never reads a description that another one has given up, unless a
\* state was submitted again while its task was under way.
THEOREM DescriptionStays == Spec => []NoUseAfterReset
<1>1. CrashInv => NoUseAfterReset
  BY DEF CrashInv, NoUseAfterReset
<1>2. QED
  BY <1>1, InitState, StateStep, PTL DEF Spec

\* What was created once, a signature or a state, is never created again, unless
\* a state was submitted again while its task was under way.
THEOREM CreatedOnce == Spec => CreatedStays
<1>1. ASSUME SigInv, StateInv, CrashInv, [Next]_vars
      PROVE  [/\ \A r \in Sigs : sigs[r].made # {} => sigs'[r].made = sigs[r].made
              /\ \A p \in States : states[p].object > 0 /\ ~overlap' =>
                                      states'[p].object = states[p].object]_vars
  BY <1>1, SigStep, StateStep DEF SigsStay, StatesStay
<1>2. QED
  BY <1>1, InitState, SigStep, StateStep, PTL DEF Spec, CreatedStays

-----------------------------------------------------------------------------
(***************************************************************************)
(* The conversions.                                                        *)
(***************************************************************************)

\* Each conversion of an enumeration is faithful: a value without a case of its
\* own is the one its switch returns after the cases.
LEMMA NamesKept ==
  /\ \A v \in OneOf(EBlend) : BlendToDX(v) = v
  /\ \A v \in OneOf(EBlendOp) : BlendOpToDX(v) = v
  /\ \A v \in OneOf(ECompFunc) : CompFuncToDX(v) = v
  /\ \A v \in OneOf(ECullMode) : CullModeToDX(v) = v
  /\ \A v \in OneOf(EFillMode) : FillModeToDX(v) = v
  /\ \A v \in OneOf(EFormat) : FormatToDX(v) = v
  /\ \A v \in OneOf(ELogicOp) : LogicOpToDX(v) = v
  /\ \A v \in OneOf(EStencilOp) : StencilOpToDX(v) = v
  /\ \A v \in OneOf(ETopologyType) : TopologyTypeToDX(v) = v
  /\ \A v \in OneOf(EDescriptorType) :
        DescriptorTypeToDX(v) = RangeType(v) /\ RangeType(v) \in {"CBV", "UAV", "SAMPLER", "SRV"}
<1>1. \A v \in OneOf(EBlend) : BlendToDX(v) = v
  BY DEF OneOf, EBlend, BlendToDX, Switch
<1>2. \A v \in OneOf(EBlendOp) : BlendOpToDX(v) = v
  BY DEF OneOf, EBlendOp, BlendOpToDX, Switch
<1>3. \A v \in OneOf(ECompFunc) : CompFuncToDX(v) = v
  BY DEF OneOf, ECompFunc, CompFuncToDX, Switch
<1>4. \A v \in OneOf(ECullMode) : CullModeToDX(v) = v
  BY DEF OneOf, ECullMode, CullModeToDX, Switch
<1>5. \A v \in OneOf(EFillMode) : FillModeToDX(v) = v
  BY DEF OneOf, EFillMode, FillModeToDX, Switch
<1>6. \A v \in OneOf(EFormat) : FormatToDX(v) = v
  BY DEF OneOf, EFormat, FormatToDX, Switch
<1>7. \A v \in OneOf(ELogicOp) : LogicOpToDX(v) = v
  BY DEF OneOf, ELogicOp, LogicOpToDX, Switch
<1>8. \A v \in OneOf(EStencilOp) : StencilOpToDX(v) = v
  BY DEF OneOf, EStencilOp, StencilOpToDX, Switch
<1>9. \A v \in OneOf(ETopologyType) : TopologyTypeToDX(v) = v
  BY DEF OneOf, ETopologyType, TopologyTypeToDX, Switch
<1>10. \A v \in OneOf(EDescriptorType) :
          DescriptorTypeToDX(v) = RangeType(v) /\ RangeType(v) \in {"CBV", "UAV", "SAMPLER", "SRV"}
  BY DEF OneOf, EDescriptorType, DescriptorTypeToDX, RangeType
<1>11. QED
  BY <1>1, <1>2, <1>3, <1>4, <1>5, <1>6, <1>7, <1>8, <1>9, <1>10

\* A target of the blend state keeps its fields.
LEMMA TargetKept ==
  ASSUME NEW b \in BlendDesc, NEW i \in Targets
  PROVE  Same(BlendDescToDX(b).RenderTarget[i], b.renderTarget[i], TargetFields)
<1> DEFINE t == b.renderTarget[i]
           dx == BlendDescToDX(b).RenderTarget[i]
<1>1. t \in RenderTargetBlendDesc
  BY DEF BlendDesc
<1>2. dx = [BlendEnable |-> t.blendEnable, LogicOpEnable |-> t.logicOpEnable,
            SrcBlend |-> t.srcBlend, SrcBlendAlpha |-> t.srcBlendAlpha,
            DestBlend |-> t.destBlend, DestBlendAlpha |-> t.destBlendAlpha,
            BlendOp |-> t.blendOp, BlendOpAlpha |-> t.blendOpAlpha,
            LogicOp |-> t.logicOp, RenderTargetWriteMask |-> t.renderTargetWriteMask]
  <2>1. /\ t.srcBlend \in OneOf(EBlend) /\ t.srcBlendAlpha \in OneOf(EBlend)
        /\ t.destBlend \in OneOf(EBlend) /\ t.destBlendAlpha \in OneOf(EBlend)
        /\ t.blendOp \in OneOf(EBlendOp) /\ t.blendOpAlpha \in OneOf(EBlendOp)
        /\ t.logicOp \in OneOf(ELogicOp)
    BY <1>1 DEF RenderTargetBlendDesc
  <2>2. /\ BlendToDX(t.srcBlend) = t.srcBlend /\ BlendToDX(t.srcBlendAlpha) = t.srcBlendAlpha
        /\ BlendToDX(t.destBlend) = t.destBlend /\ BlendToDX(t.destBlendAlpha) = t.destBlendAlpha
        /\ BlendOpToDX(t.blendOp) = t.blendOp /\ BlendOpToDX(t.blendOpAlpha) = t.blendOpAlpha
        /\ LogicOpToDX(t.logicOp) = t.logicOp
    BY <2>1, NamesKept
  <2>3. QED
    BY <2>2 DEF BlendDescToDX
<1> HIDE DEF t, dx
<1>3. Same(dx, t, TargetFields)
  BY <1>2 DEF Same, TargetFields
<1>4. QED
  BY <1>3 DEF t, dx

\* A face of the depth and stencil state keeps its fields.
LEMMA StencilKept ==
  ASSUME NEW s \in StencilOpDesc
  PROVE  Same(StencilOpDescToDX(s), s, StencilFields)
<1>1. /\ s.fail \in OneOf(EStencilOp) /\ s.depthFail \in OneOf(EStencilOp)
      /\ s.pass \in OneOf(EStencilOp) /\ s.func \in OneOf(ECompFunc)
  BY DEF StencilOpDesc
<1>2. StencilOpDescToDX(s) = [StencilDepthFailOp |-> s.depthFail, StencilFailOp |-> s.fail,
                              StencilPassOp |-> s.pass, StencilFunc |-> s.func]
  BY <1>1, NamesKept DEF StencilOpDescToDX
<1>3. QED
  BY <1>2 DEF Same, StencilFields

\* The depth and stencil state keeps its fields; its write mask says whether it writes.
LEMMA DepthKept ==
  ASSUME NEW d \in DepthStencilDesc
  PROVE  LET dx == DepthStencilDescToDX(d) IN
         /\ Same(dx.FrontFace, d.frontFace, StencilFields)
         /\ Same(dx.BackFace, d.backFace, StencilFields)
         /\ Same(Without(dx, {"FrontFace", "BackFace", "DepthWriteMask"}), d, PlainDepth)
         /\ dx.DepthWriteMask = "ALL" <=> d.depthMaskEnable
<1> DEFINE dx == DepthStencilDescToDX(d)
<1>1. /\ d.frontFace \in StencilOpDesc /\ d.backFace \in StencilOpDesc
      /\ d.depthFunc \in OneOf(ECompFunc) /\ d.depthMaskEnable \in BOOLEAN
  BY DEF DepthStencilDesc
<1>2. dx = [DepthEnable |-> d.depthEnable,
            DepthWriteMask |-> IF d.depthMaskEnable THEN "ALL" ELSE "ZERO",
            DepthFunc |-> d.depthFunc, StencilEnable |-> d.stencilEnable,
            StencilReadMask |-> d.stencilReadMask, StencilWriteMask |-> d.stencilWriteMask,
            FrontFace |-> StencilOpDescToDX(d.frontFace),
            BackFace |-> StencilOpDescToDX(d.backFace)]
  BY <1>1, NamesKept DEF DepthStencilDescToDX
<1> HIDE DEF dx
<1>3. Same(dx.FrontFace, d.frontFace, StencilFields) /\ Same(dx.BackFace, d.backFace, StencilFields)
  BY <1>1, <1>2, StencilKept
<1>4. dx.DepthWriteMask = "ALL" <=> d.depthMaskEnable
  BY <1>1, <1>2
<1>5. Without(dx, {"FrontFace", "BackFace", "DepthWriteMask"}) =
         [DepthEnable |-> d.depthEnable, DepthFunc |-> d.depthFunc,
          StencilEnable |-> d.stencilEnable, StencilReadMask |-> d.stencilReadMask,
          StencilWriteMask |-> d.stencilWriteMask]
  BY <1>2 DEF Without
<1>6. Same(Without(dx, {"FrontFace", "BackFace", "DepthWriteMask"}), d, PlainDepth)
  BY <1>5 DEF Same, PlainDepth
<1>7. QED
  BY <1>3, <1>4, <1>6 DEF dx

\* The rasterizer state keeps its fields.
LEMMA RasterKept ==
  ASSUME NEW d \in RasterizerDesc
  PROVE  LET dx == RasterizerDescToDX(d) IN
         /\ Same(Without(dx, {"ConservativeRaster"}), d, PlainRaster)
         /\ dx.ConservativeRaster = "ON" <=> d.useConservativeRaster
<1> DEFINE dx == RasterizerDescToDX(d)
<1>1. /\ d.cullMode \in OneOf(ECullMode) /\ d.fillMode \in OneOf(EFillMode)
      /\ d.useConservativeRaster \in BOOLEAN
  BY DEF RasterizerDesc
<1>2. dx = [AntialiasedLineEnable |-> d.antialiasedLineEnable,
            ConservativeRaster |-> IF d.useConservativeRaster THEN "ON" ELSE "OFF",
            CullMode |-> d.cullMode, FillMode |-> d.fillMode,
            DepthBias |-> d.depthBias, DepthBiasClamp |-> d.depthBiasClamp,
            SlopeScaledDepthBias |-> d.slopeScaledDepthBias,
            DepthClipEnable |-> d.depthClipEnable,
            ForcedSampleCount |-> d.forcedSampleCount,
            FrontCounterClockwise |-> d.frontCCW,
            MultisampleEnable |-> d.multisampleEnable]
  BY <1>1, NamesKept DEF RasterizerDescToDX
<1> HIDE DEF dx
<1>3. dx.ConservativeRaster = "ON" <=> d.useConservativeRaster
  BY <1>1, <1>2
<1>4. Without(dx, {"ConservativeRaster"}) =
         [AntialiasedLineEnable |-> d.antialiasedLineEnable,
          CullMode |-> d.cullMode, FillMode |-> d.fillMode,
          DepthBias |-> d.depthBias, DepthBiasClamp |-> d.depthBiasClamp,
          SlopeScaledDepthBias |-> d.slopeScaledDepthBias,
          DepthClipEnable |-> d.depthClipEnable,
          ForcedSampleCount |-> d.forcedSampleCount,
          FrontCounterClockwise |-> d.frontCCW,
          MultisampleEnable |-> d.multisampleEnable]
  BY <1>2 DEF Without
<1>5. Same(Without(dx, {"ConservativeRaster"}), d, PlainRaster)
  BY <1>4 DEF Same, PlainRaster
<1>6. QED
  BY <1>3, <1>5 DEF dx

\* What is passed to Direct3D for any description is what it asks for.
LEMMA Faithful == ASSUME NEW d \in PipelineStateDesc PROVE AsAsked(Converted(d), d)
<1> DEFINE dx == Converted(d)
<1>1. /\ d.blendState \in BlendDesc /\ d.depthStencilState \in DepthStencilDesc
      /\ d.rasterizerState \in RasterizerDesc /\ d.topology \in OneOf(ETopologyType)
      /\ \A i \in Targets : d.formatRenderTarget[i] \in OneOf(EFormat)
      /\ DOMAIN d.shaders \subseteq Shaders
  BY DEF PipelineStateDesc
<1>2. /\ dx.BlendState = BlendDescToDX(d.blendState)
      /\ dx.DepthStencilState = DepthStencilDescToDX(d.depthStencilState)
      /\ dx.RasterizerState = RasterizerDescToDX(d.rasterizerState)
      /\ dx.SampleMask = d.sampleMask
      /\ dx.PrimitiveTopologyType = d.topology
      /\ dx.NumRenderTargets = d.numRenderTargets
      /\ dx.SampleDesc = MultiSampleDescToDX(d.multiSampleState)
      /\ \A i \in Targets : dx.RTVFormats[i] = d.formatRenderTarget[i]
      /\ \A t \in {"DOMAIN", "GEOMETRY", "HULL", "PIXEL", "VERTEX"} :
            t \in DOMAIN d.shaders => dx.Shaders[t] = d.shaders[t]
  BY <1>1, NamesKept DEF Converted
<1> HIDE DEF dx
<1>3. \A t \in DOMAIN d.shaders \ {"COMPUTE"} : dx.Shaders[t] = d.shaders[t]
  BY <1>1, <1>2 DEF Shaders, OneOf, EShaderType
<1>4. Same(MultiSampleDescToDX(d.multiSampleState), d.multiSampleState,
           [Count |-> "count", Quality |-> "quality"])
  BY DEF Same, MultiSampleDescToDX
<1>5. Same(Without(BlendDescToDX(d.blendState), {"RenderTarget"}), d.blendState,
           [AlphaToCoverageEnable |-> "alphaToCoverageEnable",
            IndependentBlendEnable |-> "independentBlendEnable"])
  <2>1. PICK x, targets :
           /\ x = [AlphaToCoverageEnable |-> d.blendState.alphaToCoverageEnable,
                   IndependentBlendEnable |-> d.blendState.independentBlendEnable,
                   RenderTarget |-> targets]
           /\ BlendDescToDX(d.blendState) = x
    BY DEF BlendDescToDX
  <2>2. Without(x, {"RenderTarget"}) =
           [AlphaToCoverageEnable |-> d.blendState.alphaToCoverageEnable,
            IndependentBlendEnable |-> d.blendState.independentBlendEnable]
    BY <2>1 DEF Without
  <2>3. QED
    BY <2>1, <2>2 DEF Same
<1>6. \A i \in Targets : Same(dx.BlendState.RenderTarget[i], d.blendState.renderTarget[i],
                              TargetFields)
  BY <1>1, <1>2, TargetKept
<1>7. /\ Same(dx.DepthStencilState.FrontFace, d.depthStencilState.frontFace, StencilFields)
      /\ Same(dx.DepthStencilState.BackFace, d.depthStencilState.backFace, StencilFields)
      /\ Same(Without(dx.DepthStencilState, {"FrontFace", "BackFace", "DepthWriteMask"}),
              d.depthStencilState, PlainDepth)
      /\ dx.DepthStencilState.DepthWriteMask = "ALL" <=> d.depthStencilState.depthMaskEnable
  BY <1>1, <1>2, DepthKept
<1>8. /\ Same(Without(dx.RasterizerState, {"ConservativeRaster"}), d.rasterizerState, PlainRaster)
      /\ dx.RasterizerState.ConservativeRaster = "ON" <=> d.rasterizerState.useConservativeRaster
  BY <1>1, <1>2, RasterKept
<1>9. AsAsked(dx, d)
  BY <1>2, <1>3, <1>4, <1>5, <1>6, <1>7, <1>8 DEF AsAsked
<1>10. QED
  BY <1>9 DEF dx

-----------------------------------------------------------------------------
(***************************************************************************)
(* Numbers in order.                                                       *)
(***************************************************************************)

\* Numbers up to a bound are finitely many.
LEMMA BelowFinite ==
  ASSUME NEW n \in Nat, NEW S \in SUBSET (1..n)
  PROVE  IsFiniteSet(S) /\ Cardinality(S) \in Nat
<1>1. IsFiniteSet(1..n)
  BY FS_Interval
<1>2. IsFiniteSet(S)
  BY <1>1, FS_Subset
<1>3. QED
  BY <1>2, FS_CardinalityType

\* A number has a rank among those of its set.
LEMMA RankIn ==
  ASSUME NEW n \in Nat, NEW S \in SUBSET (1..n), NEW i \in S
  PROVE  Rank(S, i) \in 1..Cardinality(S) /\ Cardinality(S) \in Nat
<1> DEFINE low == {j \in S : j <= i}
<1>1. IsFiniteSet(S) /\ Cardinality(S) \in Nat
  BY BelowFinite
<1>2. IsFiniteSet(low) /\ Cardinality(low) <= Cardinality(S) /\ Cardinality(low) \in Nat
  BY <1>1, FS_Subset, FS_CardinalityType
<1>3. i \in low
  OBVIOUS
<1> HIDE DEF low
<1>4. Cardinality(low) # 0
  BY <1>2, <1>3, FS_EmptySet
<1>5. QED
  BY <1>1, <1>2, <1>4 DEF Rank, low

\* A sequence with an element for each number of a set of numbers up to n.
Ranked(seq, n, S) == n \in Nat /\ S \in SUBSET (1..n) /\ DOMAIN seq = 1..Cardinality(S)
OneMore(T, seq, n, S, v, seq1, S1) ==
    /\ seq \in Seq(T) /\ v \in T /\ seq1 = Append(seq, v)
    /\ Ranked(seq, n, S) /\ S1 = S \cup {n + 1}

\* A number larger than all ranks last, and changes no other rank: what is
\* appended to a sequence in the order of a set is in the order of the larger set.
LEMMA OrderGrows ==
  ASSUME NEW T, NEW seq, NEW n, NEW S, NEW v, NEW seq1, NEW S1,
         OneMore(T, seq, n, S, v, seq1, S1)
  PROVE  /\ DOMAIN seq1 = 1..Cardinality(S1)
         /\ \A i \in S : seq1[Rank(S1, i)] = seq[Rank(S, i)]
         /\ seq1[Rank(S1, n + 1)] = v
<1> DEFINE c == Cardinality(S)
<1> /\ n \in Nat /\ S \in SUBSET (1..n) /\ DOMAIN seq = 1..Cardinality(S)
    /\ seq \in Seq(T) /\ v \in T /\ seq1 = Append(seq, v) /\ S1 = S \cup {n + 1}
  BY DEF OneMore, Ranked
<1>1. IsFiniteSet(S) /\ c \in Nat
  BY BelowFinite
<1>2. Cardinality(S1) = c + 1
  <2>1. n + 1 \notin S
    OBVIOUS
  <2>2. QED
    BY <1>1, <2>1, FS_AddElement
<1>3. DOMAIN seq1 = 1..(c + 1) /\ seq1[c + 1] = v /\ \A k \in 1..c : seq1[k] = seq[k]
  <2>1. Len(seq) = c
    BY <1>1
  <2>2. QED
    BY <1>1, <2>1
<1>4. ASSUME NEW i \in S PROVE Rank(S1, i) = Rank(S, i)
  <2>1. {j \in S1 : j <= i} = {j \in S : j <= i}
    OBVIOUS
  <2>2. QED
    BY <2>1 DEF Rank
<1>5. Rank(S1, n + 1) = c + 1
  <2>1. \A j \in S1 : j <= n + 1
    OBVIOUS
  <2>2. {j \in S1 : j <= n + 1} = S1
    BY <2>1
  <2>3. QED
    BY <1>2, <2>2 DEF Rank
<1>6. \A i \in S : Rank(S, i) \in 1..c
  BY RankIn
<1> HIDE DEF c
<1>7. \A i \in S : seq1[Rank(S1, i)] = seq[Rank(S, i)]
  BY <1>3, <1>4, <1>6
<1>8. QED
  BY <1>2, <1>3, <1>5, <1>7 DEF c

-----------------------------------------------------------------------------
(***************************************************************************)
(* A signature while it is filled.                                         *)
(***************************************************************************)
RangeNames == {"CBV", "UAV", "SAMPLER", "SRV"}

SigType == [phase : Phases, params : Seq(ParamType), ranges : Seq(Seq(RangeNames)),
            size : Nat, made : SUBSET Seq(ParamType)]

ParamOps == {"CONSTANT", "TABLE"} \cup Views

Entry == [op : ParamOps, value : Nat]
         \cup [op : {"RANGE"}, value : Nat, type : OneOf(EDescriptorType)]

\* What the calls are made of.
LEMMA EntryFacts ==
  ASSUME NEW e \in Entry
  PROVE  /\ e.value \in Nat /\ e.op \in ParamOps \cup {"RANGE"}
         /\ e.op = "RANGE" => e.type \in OneOf(EDescriptorType)
         /\ e.op # "RANGE" => Param(e.op, e.value) \in ParamType
<1>1. "RANGE" \notin ParamOps
  BY PipelineAssumption DEF ParamOps
<1>2. /\ e.value \in Nat /\ e.op \in ParamOps \cup {"RANGE"}
      /\ e.op = "RANGE" => e.type \in OneOf(EDescriptorType)
  BY <1>1 DEF Entry
<1>3. <<>> \in Seq(RangeNames)
  OBVIOUS
<1>4. e.op # "RANGE" => Param(e.op, e.value) \in ParamType
  BY <1>2, <1>3 DEF Param, ParamType, RangeNames, ParamOps
<1>5. QED
  BY <1>2, <1>4

\* There is a parameter for each call that asks for one.
Counted(s, calls) == DOMAIN s.params = 1..Cardinality(ParamCalls(calls))

\* The parameters are those of the calls, in their order; a table's index leads to
\* the ranges that were added to it.
Follows(s, calls) ==
    /\ \A i \in ParamCalls(calls) :
          /\ s.params[Rank(ParamCalls(calls), i)] = Param(calls[i].op, calls[i].value)
          /\ calls[i].op = "TABLE" => calls[i].value < Len(s.ranges)
    /\ \A i \in DOMAIN calls : calls[i].op = "RANGE" => calls[i].value < Len(s.ranges)
    /\ \A x \in 0..(Len(s.ranges) - 1) : InOrder(s.ranges[x + 1], AskedRanges(calls, x))

\* The calls after one more.
LEMMA CallAdded ==
  ASSUME NEW calls \in Seq(Entry), NEW e \in Entry
  PROVE  LET n == Len(calls)  more == Append(calls, e) IN
         /\ n \in Nat /\ more \in Seq(Entry) /\ DOMAIN calls = 1..n
         /\ DOMAIN more = DOMAIN calls \cup {n + 1} /\ n + 1 \notin DOMAIN calls
         /\ more[n + 1] = e /\ \A i \in DOMAIN calls : more[i] = calls[i]
         /\ ParamCalls(calls) \in SUBSET (1..n)
         /\ \A x : RangeCalls(calls, x) \in SUBSET (1..n)
         /\ e.op # "RANGE" => /\ ParamCalls(more) = ParamCalls(calls) \cup {n + 1}
                              /\ \A x : RangeCalls(more, x) = RangeCalls(calls, x)
         /\ e.op = "RANGE" =>
               /\ ParamCalls(more) = ParamCalls(calls)
               /\ RangeCalls(more, e.value) = RangeCalls(calls, e.value) \cup {n + 1}
               /\ \A x : x # e.value => RangeCalls(more, x) = RangeCalls(calls, x)
<1> DEFINE n == Len(calls)
           more == Append(calls, e)
<1>1. n \in Nat /\ more \in Seq(Entry) /\ DOMAIN calls = 1..n
  OBVIOUS
<1>2. /\ DOMAIN more = 1..(n + 1) /\ more[n + 1] = e
      /\ \A i \in 1..n : more[i] = calls[i]
  OBVIOUS
<1> HIDE DEF n, more
<1>3. DOMAIN more = DOMAIN calls \cup {n + 1} /\ n + 1 \notin DOMAIN calls
  BY <1>1, <1>2
<1>4. /\ more[n + 1] = e /\ \A i \in DOMAIN calls : more[i] = calls[i]
  BY <1>1, <1>2
<1>5. ParamCalls(calls) \in SUBSET (1..n) /\ \A x : RangeCalls(calls, x) \in SUBSET (1..n)
  BY <1>1 DEF ParamCalls, RangeCalls
<1>6. ASSUME e.op # "RANGE"
      PROVE  /\ ParamCalls(more) = ParamCalls(calls) \cup {n + 1}
             /\ \A x : RangeCalls(more, x) = RangeCalls(calls, x)
  BY <1>3, <1>4, <1>6 DEF ParamCalls, RangeCalls
<1>7. ASSUME e.op = "RANGE"
      PROVE  /\ ParamCalls(more) = ParamCalls(calls)
             /\ RangeCalls(more, e.value) = RangeCalls(calls, e.value) \cup {n + 1}
             /\ \A x : x # e.value => RangeCalls(more, x) = RangeCalls(calls, x)
  BY <1>3, <1>4, <1>7 DEF ParamCalls, RangeCalls
<1>8. QED
  BY <1>1, <1>3, <1>4, <1>5, <1>6, <1>7 DEF n, more

\* What the ranges of a table should be does not depend on calls of other kinds.
LEMMA RangesRest ==
  ASSUME NEW calls \in Seq(Entry), NEW e \in Entry, NEW x, e.op = "RANGE" => e.value # x
  PROVE  AskedRanges(Append(calls, e), x) = AskedRanges(calls, x)
<1> DEFINE more == Append(calls, e)
<1>1. /\ RangeCalls(more, x) = RangeCalls(calls, x)
      /\ \A i \in RangeCalls(calls, x) : more[i] = calls[i]
  BY CallAdded DEF RangeCalls
<1> HIDE DEF more
<1>2. AskedRanges(more, x) = AskedRanges(calls, x)
  BY <1>1 DEF AskedRanges
<1>3. QED
  BY <1>2 DEF more

\* A parameter of any kind is added; a table comes with an empty list of ranges.
AddsParam(s, e, t) ==
    /\ t.params = Append(s.params, Param(e.op, e.value))
    /\ \/ e.op # "TABLE" /\ t.ranges = s.ranges
       \/ e.op = "TABLE" /\ e.value = Len(s.ranges) /\ t.ranges = Append(s.ranges, <<>>)

\* It follows the calls still.
LEMMA ParamAdded ==
  ASSUME NEW s \in SigType, NEW calls \in Seq(Entry), NEW e \in Entry, NEW t \in SigType,
         e.op # "RANGE", Counted(s, calls), AddsParam(s, e, t)
  PROVE  /\ Counted(t, Append(calls, e))
         /\ Follows(s, calls) => Follows(t, Append(calls, e))
<1> DEFINE n == Len(calls)
           more == Append(calls, e)
           S == ParamCalls(calls)
           S1 == S \cup {n + 1}
           k == Len(s.ranges)
           k1 == Len(t.ranges)
           v == Param(e.op, e.value)
<1>1. /\ n \in Nat /\ DOMAIN more = DOMAIN calls \cup {n + 1} /\ n + 1 \notin DOMAIN calls
      /\ more[n + 1] = e /\ \A i \in DOMAIN calls : more[i] = calls[i]
      /\ S \in SUBSET (1..n) /\ S \subseteq DOMAIN calls /\ ParamCalls(more) = S1
  BY CallAdded DEF ParamCalls
<1>2. s.params \in Seq(ParamType)
  BY DEF SigType
<1>3. /\ DOMAIN t.params = 1..Cardinality(S1)
      /\ \A i \in S : t.params[Rank(S1, i)] = s.params[Rank(S, i)]
      /\ t.params[Rank(S1, n + 1)] = v
  <2>1. Ranked(s.params, n, S)
    BY <1>1 DEF Counted, Ranked
  <2>2. t.params = Append(s.params, v) /\ v \in ParamType
    BY EntryFacts DEF AddsParam
  <2>3. OneMore(ParamType, s.params, n, S, v, t.params, S1)
    BY <1>2, <2>1, <2>2 DEF OneMore
  <2> HIDE DEF n, more, S, S1, v
  <2>4. QED
    BY <2>3, OrderGrows
<1>4. /\ k \in Nat /\ k1 \in Nat /\ k <= k1 /\ (e.op = "TABLE" => e.value < k1)
      /\ \A x \in 0..(k - 1) : t.ranges[x + 1] = s.ranges[x + 1]
      /\ \A x \in 0..(k1 - 1) : x \notin 0..(k - 1) =>
            x = k /\ k1 = k + 1 /\ t.ranges[x + 1] = <<>>
  <2>1. s.ranges \in Seq(Seq(RangeNames)) /\ k \in Nat
    BY DEF SigType
  <2> k = Len(s.ranges) /\ k1 = Len(t.ranges)
    OBVIOUS
  <2>2. CASE e.op # "TABLE" /\ t.ranges = s.ranges
    BY <2>1, <2>2
  <2>3. CASE e.op = "TABLE" /\ e.value = k /\ t.ranges = Append(s.ranges, <<>>)
    <3>1. <<>> \in Seq(RangeNames)
      OBVIOUS
    <3>2. /\ k1 = k + 1 /\ t.ranges[k + 1] = <<>>
          /\ \A y \in 1..k : t.ranges[y] = s.ranges[y]
      BY <2>1, <2>3, <3>1
    <3> HIDE DEF k, k1
    <3>3. QED
      BY <2>1, <2>3, <3>2
  <2>4. QED
    BY <2>2, <2>3 DEF AddsParam
<1>5. \A x : AskedRanges(more, x) = AskedRanges(calls, x)
  BY RangesRest
<1> HIDE DEF n, more, S, S1, k, k1, v
<1>6. Counted(t, more)
  BY <1>1, <1>3 DEF Counted
<1>7. ASSUME Follows(s, calls) PROVE Follows(t, more)
  <2>1. /\ \A i \in S : /\ s.params[Rank(S, i)] = Param(calls[i].op, calls[i].value)
                        /\ calls[i].op = "TABLE" => calls[i].value < k
        /\ \A i \in DOMAIN calls : calls[i].op = "RANGE" => calls[i].value < k
        /\ \A x \in 0..(k - 1) : InOrder(s.ranges[x + 1], AskedRanges(calls, x))
    BY <1>7 DEF Follows, S, k
  <2>2. \A i \in DOMAIN calls : calls[i].value \in Nat
    BY EntryFacts
  <2>3. ASSUME NEW i \in S1
        PROVE  /\ t.params[Rank(S1, i)] = Param(more[i].op, more[i].value)
               /\ more[i].op = "TABLE" => more[i].value < k1
    <3>1. CASE i \in S
      BY <1>1, <1>3, <1>4, <2>1, <2>2, <3>1
    <3>2. CASE i = n + 1
      <4>1. more[i] = e
        BY <1>1, <3>2
      <4>2. e.op = "TABLE" => e.value < k1
        BY <1>4
      <4>3. t.params[Rank(S1, i)] = Param(e.op, e.value)
        BY <1>3, <3>2 DEF v
      <4>4. QED
        BY <4>1, <4>2, <4>3
    <3>3. QED
      BY <3>1, <3>2 DEF S1
  <2>4. ASSUME NEW i \in DOMAIN more, more[i].op = "RANGE" PROVE more[i].value < k1
    <3>1. i \in DOMAIN calls /\ more[i] = calls[i]
      BY <1>1, <2>4
    <3>2. QED
      BY <1>4, <2>1, <2>2, <2>4, <3>1
  <2>5. ASSUME NEW x \in 0..(k1 - 1) PROVE InOrder(t.ranges[x + 1], AskedRanges(more, x))
    <3>1. CASE x \in 0..(k - 1)
      BY <1>4, <1>5, <2>1, <3>1
    <3>2. CASE x \notin 0..(k - 1)
      <4>1. x = k /\ t.ranges[x + 1] = <<>>
        BY <1>4, <3>2
      <4>2. RangeCalls(calls, x) = {}
        BY <1>4, <2>1, <4>1 DEF RangeCalls
      <4>3. DOMAIN AskedRanges(calls, x) = {}
        BY <4>2 DEF AskedRanges
      <4>4. InOrder(<<>>, AskedRanges(calls, x))
        BY <4>3, FS_EmptySet DEF InOrder
      <4>5. QED
        BY <1>5, <4>1, <4>4
    <3>3. QED
      BY <3>1, <3>2
  <2>6. QED
    BY <1>1, <2>3, <2>4, <2>5 DEF Follows, S, k1
<1>8. QED
  BY <1>6, <1>7 DEF more

\* A range is added to a table.
AddsRange(s, e, t) ==
    /\ e.value < Len(s.ranges) /\ t.params = s.params
    /\ t.ranges = [s.ranges EXCEPT ![e.value + 1] = Append(@, DescriptorTypeToDX(e.type))]

\* It follows the calls still.
LEMMA RangeAdded ==
  ASSUME NEW s \in SigType, NEW calls \in Seq(Entry), NEW e \in Entry, NEW t \in SigType,
         e.op = "RANGE", AddsRange(s, e, t)
  PROVE  /\ Counted(s, calls) => Counted(t, Append(calls, e))
         /\ Follows(s, calls) => Follows(t, Append(calls, e))
<1> DEFINE n == Len(calls)
           more == Append(calls, e)
           k == Len(s.ranges)
           y == e.value
           v == DescriptorTypeToDX(e.type)
<1>1. /\ n \in Nat /\ DOMAIN more = DOMAIN calls \cup {n + 1} /\ n + 1 \notin DOMAIN calls
      /\ more[n + 1] = e /\ \A i \in DOMAIN calls : more[i] = calls[i]
      /\ ParamCalls(more) = ParamCalls(calls) /\ ParamCalls(calls) \subseteq DOMAIN calls
      /\ RangeCalls(more, y) = RangeCalls(calls, y) \cup {n + 1}
      /\ RangeCalls(calls, y) \in SUBSET (1..n) /\ RangeCalls(calls, y) \subseteq DOMAIN calls
  BY CallAdded DEF ParamCalls, RangeCalls
<1>2. y \in Nat /\ e.type \in OneOf(EDescriptorType)
  BY EntryFacts
<1>3. v = RangeType(e.type) /\ v \in RangeNames
  BY <1>2, NamesKept DEF RangeNames
<1>4. s.ranges \in Seq(Seq(RangeNames)) /\ k \in Nat
  BY DEF SigType
<1>5. y + 1 \in DOMAIN s.ranges /\ y < k /\ s.ranges[y + 1] \in Seq(RangeNames)
  BY <1>2, <1>4 DEF AddsRange
<1>6. /\ Len(t.ranges) = k
      /\ t.ranges[y + 1] = Append(s.ranges[y + 1], v)
      /\ \A x \in 0..(k - 1) : x # y => t.ranges[x + 1] = s.ranges[x + 1]
  <2>1. /\ t.ranges[y + 1] = Append(s.ranges[y + 1], v)
        /\ \A x \in DOMAIN s.ranges : x # y + 1 => t.ranges[x] = s.ranges[x]
        /\ DOMAIN t.ranges = DOMAIN s.ranges
    BY <1>5 DEF AddsRange
  <2>2. DOMAIN s.ranges = 1..k
    BY <1>4
  <2>3. Len(t.ranges) = k
    <3>1. t.ranges \in Seq(Seq(RangeNames))
      BY DEF SigType
    <3>2. QED
      BY <1>4, <2>1, <2>2, <3>1
  <2> HIDE DEF k, y, v
  <2>4. ASSUME NEW x \in 0..(k - 1), x # y PROVE t.ranges[x + 1] = s.ranges[x + 1]
    <3>1. x + 1 \in 1..k /\ x + 1 # y + 1
      BY <1>2, <1>4, <2>4
    <3>2. QED
      BY <2>1, <2>2, <3>1
  <2>5. QED
    BY <2>1, <2>3, <2>4
<1>7. \A x : x # y => AskedRanges(more, x) = AskedRanges(calls, x)
  BY RangesRest
<1> HIDE DEF n, more, k, y, v
<1>8. Counted(s, calls) => Counted(t, more)
  BY <1>1 DEF Counted, AddsRange
<1>9. ASSUME Follows(s, calls) PROVE Follows(t, more)
  <2>1. /\ \A i \in ParamCalls(calls) :
              /\ s.params[Rank(ParamCalls(calls), i)] = Param(calls[i].op, calls[i].value)
              /\ calls[i].op = "TABLE" => calls[i].value < k
        /\ \A i \in DOMAIN calls : calls[i].op = "RANGE" => calls[i].value < k
        /\ \A x \in 0..(k - 1) : InOrder(s.ranges[x + 1], AskedRanges(calls, x))
    BY <1>9 DEF Follows, k
  <2>2. \A i \in ParamCalls(more) :
           /\ t.params[Rank(ParamCalls(more), i)] = Param(more[i].op, more[i].value)
           /\ more[i].op = "TABLE" => more[i].value < k
    BY <1>1, <2>1 DEF AddsRange
  <2>3. \A i \in DOMAIN more : more[i].op = "RANGE" => more[i].value < k
    BY <1>1, <1>5, <2>1 DEF y
  <2>4. InOrder(t.ranges[y + 1], AskedRanges(more, y))
    <3> DEFINE S == RangeCalls(calls, y)
               S1 == S \cup {n + 1}
               q == s.ranges[y + 1]
               q1 == t.ranges[y + 1]
    <3>1. y \in 0..(k - 1)
      BY <1>2, <1>4, <1>5
    <3>2. InOrder(q, AskedRanges(calls, y))
      BY <2>1, <3>1
    <3>3. DOMAIN q = 1..Cardinality(S) /\ \A i \in S : q[Rank(S, i)] = RangeType(calls[i].type)
      BY <3>2 DEF InOrder, AskedRanges
    <3>4. /\ DOMAIN q1 = 1..Cardinality(S1)
          /\ \A i \in S : q1[Rank(S1, i)] = q[Rank(S, i)]
          /\ q1[Rank(S1, n + 1)] = v
      <4>1. q \in Seq(RangeNames) /\ q1 = Append(q, v) /\ S \in SUBSET (1..n)
        BY <1>1, <1>5, <1>6
      <4>2. Ranked(q, n, S)
        BY <1>1, <3>3, <4>1 DEF Ranked
      <4>3. OneMore(RangeNames, q, n, S, v, q1, S1)
        BY <1>3, <4>1, <4>2 DEF OneMore
      <4> HIDE DEF S, S1, q, q1
      <4>4. QED
        BY <4>3, OrderGrows
    <3>5. RangeCalls(more, y) = S1
      BY <1>1
    <3> HIDE DEF S, S1, q, q1
    <3>6. /\ DOMAIN AskedRanges(more, y) = S1
          /\ \A i \in S1 : AskedRanges(more, y)[i] = RangeType(more[i].type)
      BY <3>5 DEF AskedRanges
    <3>7. ASSUME NEW i \in S1 PROVE q1[Rank(S1, i)] = AskedRanges(more, y)[i]
      <4>1. CASE i \in S
        BY <1>1, <3>3, <3>4, <3>6, <4>1 DEF S
      <4>2. CASE i = n + 1
        BY <1>1, <1>3, <3>4, <3>6, <4>2 DEF y
      <4>3. QED
        BY <4>1, <4>2 DEF S1
    <3>8. InOrder(q1, AskedRanges(more, y))
      BY <3>4, <3>6, <3>7 DEF InOrder
    <3>9. QED
      BY <3>8 DEF q1
  <2>5. ASSUME NEW x \in 0..(k - 1) PROVE InOrder(t.ranges[x + 1], AskedRanges(more, x))
    <3>1. CASE x = y
      BY <2>4, <3>1
    <3>2. CASE x # y
      BY <1>6, <1>7, <2>1, <3>2
    <3>3. QED
      BY <3>1, <3>2
  <2>6. QED
    BY <1>6, <2>2, <2>3, <2>5 DEF Follows
<1>10. QED
  BY <1>8, <1>9 DEF more

\* What the serialization is given is what the calls asked for.
LEMMA PreparedAsCalled ==
  ASSUME NEW s \in SigType, NEW calls \in Seq(Entry), Counted(s, calls), Follows(s, calls)
  PROVE  AsCalled(Prepared(s).params, calls)
<1> DEFINE S == ParamCalls(calls)
           P == Prepared(s).params
<1>1. DOMAIN s.params = 1..Cardinality(S) /\ S \in SUBSET (1..Len(calls)) /\ Len(calls) \in Nat
  BY DEF Counted, ParamCalls
<1>2. \A i \in S : Rank(S, i) \in DOMAIN s.params
  BY <1>1, RankIn
<1>3. P = [i \in DOMAIN s.params |-> Table(s, s.params[i])]
  BY DEF Prepared, SigType
<1> HIDE DEF P
<1>4. ASSUME NEW i \in S PROVE AskedFor(P[Rank(S, i)], calls, i)
  <2>1. P[Rank(S, i)] = Table(s, Param(calls[i].op, calls[i].value))
    BY <1>2, <1>3 DEF Follows
  <2>2. CASE calls[i].op = "TABLE"
    <3>1. calls[i].value < Len(s.ranges) /\ calls[i].value \in Nat
      <4>1. calls[i] \in Entry
        BY DEF ParamCalls
      <4>2. QED
        BY <2>2, <4>1, EntryFacts DEF Follows
    <3>2. /\ P[Rank(S, i)].type = "TABLE"
          /\ P[Rank(S, i)].value = Len(s.ranges[calls[i].value + 1])
          /\ P[Rank(S, i)].ranges = s.ranges[calls[i].value + 1]
      BY <2>1, <2>2, <3>1 DEF Table, Param
    <3>3. calls[i].value \in 0..(Len(s.ranges) - 1)
      BY <3>1 DEF SigType
    <3>4. InOrder(s.ranges[calls[i].value + 1], AskedRanges(calls, calls[i].value))
      BY <3>3 DEF Follows
    <3>5. QED
      BY <2>2, <3>2, <3>4 DEF AskedFor
  <2>3. CASE calls[i].op # "TABLE"
    BY <2>1, <2>3 DEF Table, Param, AskedFor
  <2>4. QED
    BY <2>2, <2>3
<1>5. QED
  BY <1>1, <1>3, <1>4 DEF AsCalled, P

-----------------------------------------------------------------------------
(***************************************************************************)
(* What is known of every signature, whoever fills and compiles it.        *)
(***************************************************************************)

\* No root constant has more than one value.
Plain(calls) == \A i \in DOMAIN calls : calls[i].op = "CONSTANT" => calls[i].value <= 1

\* A signature s was filled by calls that Direct3D counts as dwords; a serialization of it
\* has failed or not.
SigOK(s, calls, dwords, again) ==
    /\ s.made # {} <=> s.phase = "made"
    /\ s.phase = "absent" => s.params = <<>>
    /\ s.phase # "made" => Counted(s, calls) /\ (~again => Follows(s, calls))
    /\ ~again => \A m \in s.made : AsCalled(m, calls)
    /\ Plain(calls) => dwords <= s.size

FillInv ==
    /\ sigs \in [Sigs -> SigType] /\ log \in [Sigs -> Seq(Entry)] /\ cost \in [Sigs -> Nat]
    /\ failed \subseteq Sigs /\ tooLarge \subseteq failed
    /\ \A r \in Sigs : SigOK(sigs[r], log[r], cost[r], r \in failed)
    /\ \A r \in tooLarge : ~Plain(log[r])

\* A call that fills a signature adds to it at least what Direct3D counts, unless it is a
\* root constant of several values.
Enlarges(s, e, t) ==
    /\ t.phase = s.phase /\ t.made = s.made
    /\ (e.op = "CONSTANT" => e.value <= 1) => t.size >= s.size + CostOf(e)

\* A call that does that keeps what is known of the signatures.
LEMMA FillKeeps ==
  ASSUME FillInv, NEW r \in Sigs, NEW e \in Entry, NEW t \in SigType, Fill(r, e, t),
         e.op # "RANGE" => AddsParam(sigs[r], e, t),
         e.op = "RANGE" => AddsRange(sigs[r], e, t),
         Enlarges(sigs[r], e, t)
  PROVE  FillInv'
<1> DEFINE s == sigs[r]
           calls == log[r]
           more == Append(calls, e)
           c == cost[r]
           c1 == c + CostOf(e)
<1>1. /\ s \in SigType /\ calls \in Seq(Entry) /\ c \in Nat
      /\ SigOK(s, calls, c, r \in failed)
  BY DEF FillInv
<1>2. CASE sigs[r].phase # "open"
  BY <1>2 DEF Fill, FillInv
<1>3. CASE sigs[r].phase = "open"
  <2>1. /\ sigs' = [sigs EXCEPT ![r] = t] /\ log' = [log EXCEPT ![r] = more]
        /\ cost' = [cost EXCEPT ![r] = c1] /\ UNCHANGED <<failed, tooLarge>>
    BY <1>3 DEF Fill, FillInv
  <2>2. CostOf(e) \in Nat
    BY EntryFacts DEF CostOf
  <2>3. more \in Seq(Entry) /\ c1 \in Nat
    BY <1>1, <2>2
  <2>4. Plain(more) => Plain(calls) /\ (e.op = "CONSTANT" => e.value <= 1)
    <3>1. /\ DOMAIN more = DOMAIN calls \cup {Len(calls) + 1} /\ more[Len(calls) + 1] = e
          /\ \A i \in DOMAIN calls : more[i] = calls[i]
      BY <1>1, CallAdded
    <3> HIDE DEF more, calls
    <3>2. QED
      BY <3>1 DEF Plain
  <2>5. Plain(more) => c1 <= t.size
    <3>1. s.size \in Nat /\ t.size \in Nat
      BY <1>1 DEF SigType
    <3>2. Plain(more) => c <= s.size
      BY <1>1, <2>4 DEF SigOK
    <3>3. Plain(more) => t.size >= s.size + CostOf(e)
      BY <2>4 DEF Enlarges
    <3> HIDE DEF s, more
    <3>4. QED
      BY <1>1, <2>2, <3>1, <3>2, <3>3
  <2>6. Counted(t, more) /\ (r \notin failed => Follows(t, more))
    <3>1. Counted(s, calls) /\ (r \notin failed => Follows(s, calls))
      BY <1>1, <1>3 DEF SigOK
    <3>2. CASE e.op # "RANGE"
      BY <1>1, <3>1, <3>2, ParamAdded
    <3>3. CASE e.op = "RANGE"
      BY <1>1, <3>1, <3>3, RangeAdded
    <3>4. QED
      BY <3>2, <3>3
  <2>7. t.phase = "open" /\ t.made = {}
    BY <1>1, <1>3 DEF SigOK, Enlarges
  <2>8. SigOK(t, more, c1, r \in failed)
    BY <2>5, <2>6, <2>7 DEF SigOK
  <2>9. \A q \in tooLarge : ~Plain(log'[q])
    <3>1. \A q \in tooLarge : ~Plain(log[q]) /\ q \in Sigs
      BY DEF FillInv
    <3> HIDE DEF more
    <3>2. \A q \in Sigs : log'[q] = IF q = r THEN more ELSE log[q]
      BY <2>1 DEF FillInv
    <3>3. QED
      BY <2>4, <3>1, <3>2 DEF calls
  <2>10. \A q \in Sigs : SigOK(sigs'[q], log'[q], cost'[q], q \in failed')
    <3> HIDE DEF more, c1
    <3>1. CASE sigs'[r] = t /\ log'[r] = more /\ cost'[r] = c1
      BY <2>1, <2>8, <3>1 DEF FillInv
    <3>2. QED
      BY <2>1, <3>1 DEF FillInv
  <2>11. /\ sigs' \in [Sigs -> SigType] /\ log' \in [Sigs -> Seq(Entry)]
         /\ cost' \in [Sigs -> Nat]
    <3> HIDE DEF more, c1
    <3>1. QED
      BY <2>1, <2>3 DEF FillInv
  <2>12. QED
    BY <2>1, <2>9, <2>10, <2>11 DEF FillInv
<1>4. QED
  BY <1>2, <1>3

\* The calls on the handle of a signature.
LEMMA AddKeeps ==
  ASSUME FillInv, NEW r \in Sigs,
         \/ \E n \in Values : AddConstant(r, n)
         \/ \E v \in Views : AddDescriptor(r, v)
         \/ AddDescriptorTable(r)
         \/ \E i \in 0..Len(sigs[r].ranges) - 1, x \in RangeTypes : AddDescriptorRange(r, i, x)
  PROVE  FillInv'
<1> DEFINE s == sigs[r]
<1>1. s \in SigType
  BY DEF FillInv
<1>2. /\ s.params \in Seq(ParamType) /\ s.ranges \in Seq(Seq(RangeNames)) /\ s.size \in Nat
      /\ s.phase \in Phases /\ s.made \in SUBSET Seq(ParamType)
      /\ DOMAIN s = {"phase", "params", "ranges", "size", "made"}
  BY <1>1 DEF SigType
<1>3. Views \subseteq {"CBV", "UAV", "SRV"} /\ Values \subseteq Nat
      /\ RangeTypes \subseteq OneOf(EDescriptorType)
  BY PipelineAssumption
<1>4. \A op \in ParamOps, k \in Nat : [op |-> op, value |-> k] \in Entry
  BY DEF Entry
<1>5. ASSUME NEW n \in Values, AddConstant(r, n) PROVE FillInv'
  <2>1. PICK e : e = [op |-> "CONSTANT", value |-> n]
    OBVIOUS
  <2>2. PICK t : t = [s EXCEPT !.size = @ + 1, !.params = Append(@, Param("CONSTANT", n))]
    OBVIOUS
  <2>3. e \in Entry /\ Param("CONSTANT", n) \in ParamType /\ n \in Nat
    <3>1. e \in Entry /\ n \in Nat
      BY <1>3, <1>4, <2>1 DEF ParamOps
    <3>2. QED
      BY <2>1, <3>1, EntryFacts
  <2>4. /\ t.params = Append(s.params, Param("CONSTANT", n)) /\ t.ranges = s.ranges
        /\ t.size = s.size + 1 /\ t.phase = s.phase /\ t.made = s.made
        /\ DOMAIN t = DOMAIN s
    BY <1>2, <2>2
  <2>5. t \in SigType
    <3>1. t.params \in Seq(ParamType) /\ t.size \in Nat
      BY <1>2, <2>3, <2>4
    <3>2. t = [phase |-> t.phase, params |-> t.params, ranges |-> t.ranges,
               size |-> t.size, made |-> t.made]
      BY <1>2, <2>2
    <3>3. QED
      BY <1>2, <2>4, <3>1, <3>2 DEF SigType
  <2>6. Enlarges(s, e, t)
    <3>1. CostOf(e) = n
      BY <1>3, <2>1 DEF CostOf
    <3>2. QED
      BY <1>2, <2>1, <2>3, <2>4, <3>1 DEF Enlarges
  <2>7. AddsParam(s, e, t)
    BY <2>1, <2>4 DEF AddsParam
  <2>8. Fill(r, e, t)
    BY <1>5, <2>1, <2>2 DEF AddConstant
  <2>9. e.op # "RANGE"
    BY <2>1
  <2>10. QED
    BY <2>3, <2>5, <2>6, <2>7, <2>8, <2>9, FillKeeps
<1>6. ASSUME NEW v \in Views, AddDescriptor(r, v) PROVE FillInv'
  <2>1. PICK e : e = [op |-> v, value |-> 0]
    OBVIOUS
  <2>2. PICK t : t = [s EXCEPT !.size = @ + ViewSize, !.params = Append(@, Param(v, 0))]
    OBVIOUS
  <2>3. e \in Entry /\ Param(v, 0) \in ParamType
    <3>1. e \in Entry
      BY <1>4, <2>1 DEF ParamOps
    <3>2. QED
      BY <1>3, <2>1, <3>1, EntryFacts
  <2>4. /\ t.params = Append(s.params, Param(v, 0)) /\ t.ranges = s.ranges
        /\ t.size = s.size + 2 /\ t.phase = s.phase /\ t.made = s.made
        /\ DOMAIN t = DOMAIN s
    BY <1>2, <2>2 DEF ViewSize
  <2>5. t \in SigType
    <3>1. t.params \in Seq(ParamType) /\ t.size \in Nat
      BY <1>2, <2>3, <2>4
    <3>2. t = [phase |-> t.phase, params |-> t.params, ranges |-> t.ranges,
               size |-> t.size, made |-> t.made]
      BY <1>2, <2>2
    <3>3. QED
      BY <1>2, <2>4, <3>1, <3>2 DEF SigType
  <2>6. Enlarges(s, e, t)
    <3>1. CostOf(e) = 2
      BY <1>3, <2>1 DEF CostOf
    <3>2. QED
      BY <1>2, <2>4, <3>1 DEF Enlarges
  <2>7. e.op # "RANGE" /\ e.op # "TABLE"
    BY <1>3, <2>1
  <2>8. AddsParam(s, e, t)
    BY <2>1, <2>4, <2>7 DEF AddsParam
  <2>9. Fill(r, e, t)
    BY <1>6, <2>1, <2>2 DEF AddDescriptor
  <2>10. QED
    BY <2>3, <2>5, <2>6, <2>7, <2>8, <2>9, FillKeeps
<1>7. ASSUME AddDescriptorTable(r) PROVE FillInv'
  <2>0. PICK k \in Nat : k = Len(s.ranges)
    BY <1>2
  <2>1. PICK e : e = [op |-> "TABLE", value |-> k]
    OBVIOUS
  <2>2. PICK t : t = [s EXCEPT !.size = @ + 1, !.ranges = Append(@, <<>>),
                               !.params = Append(@, Param("TABLE", k))]
    OBVIOUS
  <2>3. e \in Entry /\ Param("TABLE", k) \in ParamType
    <3>1. e \in Entry
      BY <1>4, <2>1 DEF ParamOps
    <3>2. QED
      BY <2>1, <3>1, EntryFacts
  <2>4. /\ t.params = Append(s.params, Param("TABLE", k)) /\ t.ranges = Append(s.ranges, <<>>)
        /\ t.size = s.size + 1 /\ t.phase = s.phase /\ t.made = s.made
        /\ DOMAIN t = DOMAIN s
    BY <1>2, <2>2
  <2>5. t \in SigType
    <3>0. <<>> \in Seq(RangeNames)
      OBVIOUS
    <3>1. t.params \in Seq(ParamType) /\ t.size \in Nat /\ t.ranges \in Seq(Seq(RangeNames))
      BY <1>2, <2>3, <2>4, <3>0
    <3>2. t = [phase |-> t.phase, params |-> t.params, ranges |-> t.ranges,
               size |-> t.size, made |-> t.made]
      BY <1>2, <2>2
    <3>3. QED
      BY <1>2, <2>4, <3>1, <3>2 DEF SigType
  <2>6. Enlarges(s, e, t)
    <3>1. CostOf(e) = 1
      BY <1>3, <2>1 DEF CostOf
    <3>2. QED
      BY <1>2, <2>4, <3>1 DEF Enlarges
  <2>7. e.op # "RANGE" /\ e.op = "TABLE"
    BY <2>1
  <2>8. AddsParam(s, e, t)
    BY <2>0, <2>1, <2>4, <2>7 DEF AddsParam
  <2>9. Fill(r, e, t)
    BY <1>7, <2>0, <2>1, <2>2 DEF AddDescriptorTable
  <2>10. QED
    BY <2>3, <2>5, <2>6, <2>7, <2>8, <2>9, FillKeeps
<1>8. ASSUME NEW k \in 0..Len(sigs[r].ranges) - 1, NEW x \in RangeTypes,
             AddDescriptorRange(r, k, x)
      PROVE  FillInv'
  <2>0. k \in Nat /\ k < Len(s.ranges) /\ k + 1 \in DOMAIN s.ranges
    BY <1>2
  <2>1. PICK e : e = [op |-> "RANGE", value |-> k, type |-> x]
    OBVIOUS
  <2>2. PICK t : t = [s EXCEPT !.ranges[k + 1] = Append(@, DescriptorTypeToDX(x))]
    OBVIOUS
  <2>3. e \in Entry
    BY <1>3, <2>0, <2>1 DEF Entry
  <2>4. /\ t.ranges = [s.ranges EXCEPT ![k + 1] = Append(@, DescriptorTypeToDX(x))]
        /\ t.params = s.params
        /\ t.size = s.size /\ t.phase = s.phase /\ t.made = s.made
        /\ DOMAIN t = DOMAIN s
    BY <1>2, <2>2
  <2>5. t \in SigType
    <3>0. DescriptorTypeToDX(x) \in RangeNames
      BY <1>3, NamesKept DEF RangeNames
    <3>1. s.ranges[k + 1] \in Seq(RangeNames)
      BY <1>2, <2>0
    <3>2. Append(s.ranges[k + 1], DescriptorTypeToDX(x)) \in Seq(RangeNames)
      BY <3>0, <3>1
    <3>3. t.ranges \in Seq(Seq(RangeNames))
      BY <1>2, <2>0, <2>4, <3>2
    <3>4. t = [phase |-> t.phase, params |-> t.params, ranges |-> t.ranges,
               size |-> t.size, made |-> t.made]
      BY <1>2, <2>2
    <3>5. QED
      BY <1>2, <2>4, <3>3, <3>4 DEF SigType
  <2>6. Enlarges(s, e, t)
    <3>1. CostOf(e) = 0
      BY <1>3, <2>1 DEF CostOf
    <3>2. QED
      BY <1>2, <2>4, <3>1 DEF Enlarges
  <2>7. e.op = "RANGE"
    BY <2>1
  <2>8. AddsRange(s, e, t)
    BY <2>0, <2>1, <2>4 DEF AddsRange
  <2>9. Fill(r, e, t)
    BY <1>8, <2>1, <2>2 DEF AddDescriptorRange
  <2>10. QED
    BY <2>3, <2>5, <2>6, <2>7, <2>8, <2>9, FillKeeps
<1>9. QED
  BY <1>5, <1>6, <1>7, <1>8

\* What a serialization is prepared from keeps its type and its number of parameters.
LEMMA PreparedKeeps ==
  ASSUME NEW s \in SigType
  PROVE  /\ Prepared(s) \in SigType
         /\ DOMAIN Prepared(s).params = DOMAIN s.params
         /\ Prepared(s).phase = s.phase /\ Prepared(s).made = s.made
         /\ Prepared(s).size = s.size /\ Prepared(s).ranges = s.ranges
<1> DEFINE P == [i \in DOMAIN s.params |-> Table(s, s.params[i])]
<1>1. /\ s.params \in Seq(ParamType) /\ s.ranges \in Seq(Seq(RangeNames)) /\ s.size \in Nat
      /\ s.phase \in Phases /\ s.made \in SUBSET Seq(ParamType)
      /\ DOMAIN s = {"phase", "params", "ranges", "size", "made"}
  BY DEF SigType
<1>2. ASSUME NEW p \in ParamType PROVE Table(s, p) \in ParamType
  <2>1. CASE p.type = "TABLE" /\ p.value < Len(s.ranges)
    <3>1. p.value + 1 \in DOMAIN s.ranges
      BY <1>1, <2>1 DEF ParamType
    <3>2. s.ranges[p.value + 1] \in Seq(RangeNames) /\ Len(s.ranges[p.value + 1]) \in Nat
      BY <1>1, <3>1
    <3>3. QED
      BY <2>1, <3>2 DEF Table, ParamType, RangeNames
  <2>2. QED
    BY <2>1 DEF Table
<1>3. \A i \in DOMAIN s.params : s.params[i] \in ParamType
  BY <1>1
<1>4. P \in Seq(ParamType) /\ DOMAIN P = DOMAIN s.params
  <2>1. P \in [1..Len(s.params) -> ParamType] /\ Len(s.params) \in Nat
    BY <1>1, <1>2, <1>3
  <2>2. P \in Seq(ParamType)
    BY <2>1
  <2>3. QED
    BY <2>2
<1> HIDE DEF P
<1>5. Prepared(s) = [s EXCEPT !.params = P]
  BY DEF Prepared, P
<1>6. Prepared(s) = [phase |-> s.phase, params |-> P, ranges |-> s.ranges, size |-> s.size,
                     made |-> s.made]
  BY <1>1, <1>5
<1>7. QED
  BY <1>1, <1>4, <1>6 DEF SigType

\* One signature changes while no call fills it.
LEMMA OneSignature ==
  ASSUME FillInv, NEW r \in Sigs, NEW t \in SigType, sigs' = [sigs EXCEPT ![r] = t],
         SigOK(t, log[r], cost[r], r \in failed'), UNCHANGED <<log, cost>>,
         failed' = failed \/ failed' = failed \cup {r},
         tooLarge' = tooLarge \/ (tooLarge' = tooLarge \cup {r} /\ ~Plain(log[r])
                                  /\ failed' = failed \cup {r})
  PROVE  FillInv'
<1>1. \A q \in Sigs : q # r => sigs'[q] = sigs[q] /\ (q \in failed' <=> q \in failed)
  BY DEF FillInv
<1>2. sigs'[r] = t
  BY DEF FillInv
<1>3. \A q \in Sigs : SigOK(sigs'[q], log'[q], cost'[q], q \in failed')
  <2> SUFFICES ASSUME NEW q \in Sigs PROVE SigOK(sigs'[q], log[q], cost[q], q \in failed')
    OBVIOUS
  <2>1. CASE q = r
    BY <1>2, <2>1
  <2>2. CASE q # r
    <3>1. SigOK(sigs[q], log[q], cost[q], q \in failed)
      BY DEF FillInv
    <3>2. sigs'[q] = sigs[q] /\ (q \in failed' <=> q \in failed)
      BY <1>1, <2>2
    <3>3. QED
      BY <3>1, <3>2 DEF SigOK
  <2>3. QED
    BY <2>1, <2>2
<1>4. sigs' \in [Sigs -> SigType]
  BY DEF FillInv
<1>5. failed' \subseteq Sigs /\ tooLarge' \subseteq failed'
  BY DEF FillInv
<1>6. \A q \in tooLarge' : ~Plain(log'[q])
  BY DEF FillInv
<1>7. QED
  BY <1>3, <1>4, <1>5, <1>6 DEF FillInv

\* A signature begins empty.
LEMMA CreateSigKeeps ==
  ASSUME FillInv, NEW r \in Sigs, CreateRootSignature(r)
  PROVE  FillInv'
<1> DEFINE s == sigs[r]
<1>1. s \in SigType /\ SigOK(s, log[r], cost[r], r \in failed) /\ s.phase = "absent"
  BY DEF FillInv, CreateRootSignature
<1>2. PICK t : t = [s EXCEPT !.phase = "open"]
  OBVIOUS
<1>3. /\ sigs' = [sigs EXCEPT ![r] = t] /\ UNCHANGED <<log, cost, failed, tooLarge>>
  BY <1>2 DEF CreateRootSignature, history, FillInv
<1>4. t \in SigType /\ t.phase = "open" /\ t.made = s.made /\ t.params = s.params
      /\ t.ranges = s.ranges /\ t.size = s.size
  BY <1>1, <1>2 DEF SigType, Phases
<1>5. SigOK(t, log[r], cost[r], r \in failed)
  BY <1>1, <1>4 DEF SigOK, Counted, Follows
<1>6. QED
  BY <1>3, <1>4, <1>5, OneSignature

\* A signature is created, or fails and keeps what the serialization was prepared from.
LEMMA CompileKeeps ==
  ASSUME FillInv, NEW r \in Sigs, CompileSignature(r)
  PROVE  FillInv'
<1> DEFINE s == sigs[r]
<1>1. /\ s \in SigType /\ SigOK(s, log[r], cost[r], r \in failed)
      /\ log[r] \in Seq(Entry) /\ cost[r] \in Nat
  BY DEF FillInv
<1>2. UNCHANGED <<log, cost>>
  BY DEF CompileSignature
<1>3. CASE UNCHANGED <<sigs, failed, tooLarge>>
  BY <1>2, <1>3 DEF FillInv
<1>4. CASE /\ s.phase = "open" /\ s.size <= SizeLimit
           /\ sigs' = [sigs EXCEPT ![r] = Failed(s)] /\ failed' = failed \cup {r}
           /\ tooLarge' = IF cost[r] > SizeLimit THEN tooLarge \cup {r} ELSE tooLarge
  <2>1. PICK t \in SigType :
           /\ t = Failed(s) /\ DOMAIN t.params = DOMAIN s.params
           /\ t.phase = s.phase /\ t.made = s.made /\ t.size = s.size
    BY <1>1, PreparedKeeps DEF Failed
  <2>2. SigOK(t, log[r], cost[r], TRUE)
    BY <1>1, <1>4, <2>1 DEF SigOK, Counted
  <2>3. cost[r] > SizeLimit => ~Plain(log[r])
    <3>1. s.size \in Nat /\ SizeLimit \in Nat
      BY <1>1, PipelineAssumption DEF SigType
    <3>2. Plain(log[r]) => cost[r] <= s.size
      BY <1>1 DEF SigOK
    <3>3. QED
      BY <1>1, <1>4, <3>1, <3>2
  <2>4. r \in failed'
    BY <1>4
  <2>5. SigOK(t, log[r], cost[r], r \in failed')
    BY <2>2, <2>4
  <2>6. tooLarge' = tooLarge \/ (tooLarge' = tooLarge \cup {r} /\ ~Plain(log[r])
                                 /\ failed' = failed \cup {r})
    BY <1>4, <2>3
  <2>7. sigs' = [sigs EXCEPT ![r] = t] /\ failed' = failed \cup {r}
    BY <1>4, <2>1
  <2>8. QED
    BY <1>2, <2>5, <2>6, <2>7, OneSignature
<1>5. CASE /\ s.phase = "open" /\ UNCHANGED <<failed, tooLarge>>
           /\ sigs' = [sigs EXCEPT ![r] =
                 [@ EXCEPT !.phase = "made", !.params = <<>>, !.ranges = <<>>,
                           !.made = {Prepared(s).params}]]
  <2>1. PICK t : t = [s EXCEPT !.phase = "made", !.params = <<>>, !.ranges = <<>>,
                               !.made = {Prepared(s).params}]
    OBVIOUS
  <2>2. sigs' = [sigs EXCEPT ![r] = t]
    BY <1>5, <2>1
  <2>3. /\ t.phase = "made" /\ t.params = <<>> /\ t.made = {Prepared(s).params}
        /\ t.size = s.size /\ t \in SigType
    <3>1. Prepared(s).params \in Seq(ParamType)
      BY <1>1, PreparedKeeps DEF SigType
    <3>2. <<>> \in Seq(ParamType) /\ <<>> \in Seq(Seq(RangeNames))
      OBVIOUS
    <3>3. QED
      BY <1>1, <2>1, <3>1, <3>2 DEF SigType, Phases
  <2>4. r \notin failed => AsCalled(Prepared(s).params, log[r])
    BY <1>1, <1>5, PreparedAsCalled DEF SigOK
  <2>5. SigOK(t, log[r], cost[r], r \in failed)
    BY <1>1, <2>3, <2>4 DEF SigOK
  <2>6. QED
    BY <1>2, <1>5, <2>2, <2>3, <2>5, OneSignature
<1>6. QED
  BY <1>3, <1>4, <1>5 DEF CompileSignature

\* It holds at the start.
LEMMA FillBegins == Init => FillInv
<1> SUFFICES ASSUME Init PROVE FillInv
  OBVIOUS
<1>1. PICK s : s = [phase |-> "absent", params |-> <<>>, ranges |-> <<>>, size |-> 0, made |-> {}]
  OBVIOUS
<1>2. sigs = [r \in Sigs |-> s] /\ log = [r \in Sigs |-> <<>>] /\ cost = [r \in Sigs |-> 0]
      /\ failed = {} /\ tooLarge = {}
  BY <1>1 DEF Init
<1>3. <<>> \in Seq(ParamType) /\ <<>> \in Seq(Seq(RangeNames)) /\ <<>> \in Seq(Entry)
  OBVIOUS
<1>4. s \in SigType
  BY <1>1, <1>3 DEF SigType, Phases
<1>5. ParamCalls(<<>>) = {}
  BY DEF ParamCalls
<1>6. Counted(s, <<>>)
  <2>1. Cardinality(ParamCalls(<<>>)) = 0
    BY <1>5, FS_EmptySet
  <2>2. DOMAIN s.params = {} /\ 1..0 = {}
    BY <1>1
  <2>3. QED
    BY <2>1, <2>2 DEF Counted
<1>7. Follows(s, <<>>)
  BY <1>1, <1>5 DEF Follows
<1>8. SigOK(s, <<>>, 0, FALSE)
  BY <1>1, <1>6, <1>7 DEF SigOK
<1>9. \A r \in Sigs : SigOK(sigs[r], log[r], cost[r], r \in failed)
  <2> SUFFICES ASSUME NEW r \in Sigs PROVE SigOK(sigs[r], log[r], cost[r], r \in failed)
    OBVIOUS
  <2>1. sigs[r] = s /\ log[r] = <<>> /\ cost[r] = 0 /\ r \notin failed
    BY <1>2
  <2>2. QED
    BY <1>8, <2>1 DEF SigOK
<1>10. /\ sigs \in [Sigs -> SigType] /\ log \in [Sigs -> Seq(Entry)] /\ cost \in [Sigs -> Nat]
  BY <1>2, <1>3, <1>4
<1>11. QED
  BY <1>2, <1>9, <1>10 DEF FillInv

\* Every step keeps what is known of the signatures.
LEMMA FillStep == ASSUME FillInv, [Next]_vars PROVE FillInv'
<1>1. CASE UNCHANGED <<sigs, log, cost, failed, tooLarge>>
  BY <1>1 DEF FillInv
<1>2. QED
  BY <1>1, AddKeeps, CreateSigKeeps, CompileKeeps DEF Next, Application, Work, vars, maps, history,
     CreateInputLayout, AddInput,
     SubmitState, CreatePipelineState, Compile, CompileStates,
     CompileDone, Swap, TakeTask, Enter, GetRootSignature, GetInputLayout, CreateState,
     Reset, Works, Uses

\* A created root signature has the parameters that were asked for, whatever the calls
\* and in whatever order they were made on whichever signatures.
THEOREM TablesKept == Spec => []TablesKeepRanges
<1>1. FillInv => TablesKeepRanges
  BY DEF FillInv, SigOK, TablesKeepRanges
<1>2. QED
  BY <1>1, FillBegins, FillStep, PTL DEF Spec

\* Whatever Direct3D refuses for its size and the count let pass has a root constant of
\* several values.
THEOREM LimitCaught == Spec => []LimitCaughtFirst
<1>1. FillInv => LimitCaughtFirst
  <2> SUFFICES ASSUME FillInv, NEW r \in tooLarge
               PROVE  \E i \in DOMAIN log[r] :
                         log[r][i].op = "CONSTANT" /\ log[r][i].value > 1
    BY DEF LimitCaughtFirst
  <2>1. log[r] \in Seq(Entry) /\ ~Plain(log[r])
    BY DEF FillInv
  <2>2. \A i \in DOMAIN log[r] : log[r][i].value \in Nat
    BY <2>1, EntryFacts
  <2>3. QED
    BY <2>1, <2>2 DEF Plain
<1>2. QED
  BY <1>1, FillBegins, FillStep, PTL DEF Spec

-----------------------------------------------------------------------------
(***************************************************************************)
(* What a state is made of: it keeps its description, the signature that   *)
(* the description names was created before the state was submitted, and   *)
(* what a worker has in hand is that signature.                            *)
(***************************************************************************)

\* At most one description each, which is there from the creation on.
StatesOK ==
    \A p \in States :
        /\ states[p].phase \in Phases /\ states[p].desc \subseteq Descs
        /\ \A d, e \in states[p].desc : d = e
        /\ states[p].phase = "absent" <=> states[p].desc = {}
        /\ states[p].phase = "absent" => states[p].dx = {}
        /\ states[p].phase = "made" => states[p].object > 0

\* The signature of p, as a worker or an object has it.
Fits(p, sig) == sig \subseteq sigs[SigOf(p)].made /\ (p \notin bare => sig # {})

\* A state on its way was submitted after its signature was created.
WayOK == \A p \in UnderWay : /\ states[p].phase # "absent"
                             /\ p \notin bare => sigs[SigOf(p)].made # {}

HandOK ==
    /\ DOMAIN desc = Workers /\ \A w \in Workers : DOMAIN desc[w] = {"sig", "inputs"}
    /\ \A w \in Workers :
          /\ at[w] = "idle" => task[w] = NoState /\ desc[w] = NoDesc
          /\ at[w] \in {"layout", "create"} => Fits(task[w], desc[w].sig)
          /\ at[w] = "reset" => states[task[w]].object > 0

MadeOK == \A p \in States : \A q \in states[p].dx :
             /\ \E d \in states[p].desc : q.dx = Converted(d)
             /\ Fits(p, q.sig)

DescInv == StatesOK /\ WayOK /\ HandOK /\ MadeOK /\ bare \subseteq States

-----------------------------------------------------------------------------
\* The signature of a state that exists is that of each of its descriptions.
LEMMA SigOfIs ==
  ASSUME StatesOK, NEW p \in States, states[p].phase # "absent"
  PROVE  /\ SigOf(p) \in Sigs
         /\ \E d \in states[p].desc : TRUE
         /\ \A d \in states[p].desc : SigOf(p) = d.rootSignature
<1>1. PICK d : d \in states[p].desc
  BY DEF StatesOK
<1>2. (CHOOSE e \in states[p].desc : TRUE) \in states[p].desc
  BY <1>1
<1>3. \A e \in states[p].desc : (CHOOSE c \in states[p].desc : TRUE) = e
  BY <1>2 DEF StatesOK
<1>4. d \in PipelineStateDesc
  BY <1>1, PipelineAssumption DEF StatesOK
<1>5. d.rootSignature \in Sigs
  BY <1>4 DEF PipelineStateDesc
<1>6. QED
  BY <1>1, <1>3, <1>5 DEF SigOf

\* The steps that matter to a state.
LEMMA StepKinds ==
  ASSUME [Next]_vars
  PROVE  \/ UNCHANGED <<states, gen, at, task, desc, bare>>
         \/ \E p \in States, d \in Descs : CreatePipelineState(p, d)
         \/ \E p \in States : SubmitState(p)
         \/ Swap
         \/ \E w \in Workers : Work(w)
<1>1. ASSUME NEW r \in Sigs, NEW entry, NEW s, Fill(r, entry, s)
      PROVE  UNCHANGED <<states, gen, at, task, desc, bare>>
  BY <1>1 DEF Fill, Calls, workers
<1>2. ASSUME NEW r \in Sigs, CreateRootSignature(r) \/ CompileSignature(r)
      PROVE  UNCHANGED <<states, gen, at, task, desc, bare>>
  BY <1>2 DEF CreateRootSignature, CompileSignature, Calls, workers, history
<1>3. CASE (\E l \in Layouts : CreateInputLayout(l) \/ AddInput(l))
           \/ Compile \/ CompileStates \/ CompileDone \/ UNCHANGED vars
  BY <1>3 DEF CreateInputLayout, AddInput, Compile, CompileStates, CompileDone, Calls,
     vars, maps, workers, history
<1>4. QED
  BY <1>1, <1>2, <1>3 DEF Next, Application, AddConstant, AddDescriptor, AddDescriptorTable,
     AddDescriptorRange

\* A worker's step is its own.
LEMMA WorkAlone ==
  ASSUME Fields, HandOK, NEW w \in Workers, Work(w)
  PROVE  /\ UNCHANGED <<sigs, bare>>
         /\ \A v \in Workers : v # w => at'[v] = at[v] /\ task'[v] = task[v] /\ desc'[v] = desc[v]
         /\ DOMAIN desc' = Workers /\ \A v \in Workers : DOMAIN desc'[v] = {"sig", "inputs"}
<1>1. DOMAIN at = Workers /\ DOMAIN task = Workers /\ DOMAIN desc = Workers
      /\ \A v \in Workers : DOMAIN desc[v] = {"sig", "inputs"}
  BY DEF Fields, HandOK
<1>2. UNCHANGED <<sigs, bare>>
  BY DEF Work, TakeTask, Enter, GetRootSignature, GetInputLayout, CreateState, Reset, Uses, Works,
     history
<1>3. \/ UNCHANGED at \/ \E x : at' = [at EXCEPT ![w] = x]
  BY DEF Work, TakeTask, Enter, GetRootSignature, GetInputLayout, CreateState, Reset, Go, Finish,
     Crash, workers
<1>4. \/ UNCHANGED task \/ \E x : task' = [task EXCEPT ![w] = x]
  BY DEF Work, TakeTask, Enter, GetRootSignature, GetInputLayout, CreateState, Reset, Go, Finish,
     Crash, workers
<1>5. \/ UNCHANGED desc \/ desc' = [desc EXCEPT ![w] = NoDesc]
      \/ \E x : desc' = [desc EXCEPT ![w].sig = x]
      \/ \E x : desc' = [desc EXCEPT ![w].inputs = x]
  BY DEF Work, TakeTask, Enter, GetRootSignature, GetInputLayout, CreateState, Reset, Go, Finish,
     Crash, workers
<1>6. DOMAIN NoDesc = {"sig", "inputs"}
  BY DEF NoDesc
<1>7. /\ DOMAIN desc' = Workers /\ \A v \in Workers : DOMAIN desc'[v] = {"sig", "inputs"}
      /\ \A v \in Workers : v # w => desc'[v] = desc[v]
  BY <1>1, <1>5, <1>6
<1>8. \A v \in Workers : v # w => at'[v] = at[v] /\ task'[v] = task[v]
  BY <1>1, <1>3, <1>4
<1>9. QED
  BY <1>2, <1>7, <1>8

\* What each worker's step does to its state.
LEMMA WorkOn ==
  ASSUME Fields, StatesOK, NEW w \in Workers, Work(w)
  PROVE  LET p == task[w] IN
         /\ p \in States
         /\ \A r \in States : r # p => states'[r] = states[r]
         /\ \/ states'[p] = states[p]
            \/ /\ at[w] = "create" /\ CreateState(w) /\ states[p].phase = "open"
               /\ states'[p].phase = states[p].phase /\ states'[p].desc = states[p].desc
               /\ states'[p].object = states[p].object + 1
               /\ states'[p].dx = {[sig |-> desc[w].sig, dx |-> Converted(DescOf(w))]}
            \/ /\ at[w] = "reset" /\ Reset(w) /\ states'[p].phase = "made"
               /\ states'[p].desc = states[p].desc
               /\ states'[p].object = states[p].object /\ states'[p].dx = states[p].dx
<1> DEFINE p == task[w]
<1>1. p \in States /\ DOMAIN states = States
      /\ DOMAIN states[p] = {"phase", "object", "desc", "dx"}
  BY DEF Fields
<1>2. CASE UNCHANGED states
  BY <1>1, <1>2
<1>3. CASE Reset(w)
  <2>1. at[w] = "reset" /\ states' = [states EXCEPT ![p].phase = "made"]
    BY <1>3 DEF Reset, Uses, PhaseAfter
  <2>2. /\ states'[p] = [states[p] EXCEPT !.phase = "made"]
        /\ \A r \in States : r # p => states'[r] = states[r]
    BY <1>1, <2>1
  <2>3. /\ states'[p].phase = "made" /\ states'[p].desc = states[p].desc
        /\ states'[p].object = states[p].object /\ states'[p].dx = states[p].dx
    BY <1>1, <2>2
  <2> HIDE DEF p
  <2>4. QED
    BY <1>1, <1>3, <2>1, <2>2, <2>3 DEF p
<1>4. CASE CreateState(w) /\ ~UNCHANGED states
  <2>1. PICK x : x = {[sig |-> desc[w].sig, dx |-> Converted(DescOf(w))]}
    OBVIOUS
  <2>2. /\ at[w] = "create" /\ states[p].phase = "open"
        /\ states' = [states EXCEPT ![p].object = @ + 1, ![p].dx = x]
    BY <1>4, <2>1 DEF CreateState, Uses, Crash, Described
  <2>3. /\ states'[p] = [states[p] EXCEPT !.object = @ + 1, !.dx = x]
        /\ \A r \in States : r # p => states'[r] = states[r]
    BY <1>1, <2>2
  <2>4. /\ states'[p].phase = states[p].phase /\ states'[p].desc = states[p].desc
        /\ states'[p].object = states[p].object + 1 /\ states'[p].dx = x
    BY <1>1, <2>3
  <2> HIDE DEF p
  <2>5. QED
    BY <1>1, <1>4, <2>1, <2>2, <2>3, <2>4 DEF p
<1>5. QED
  BY <1>2, <1>3, <1>4 DEF Work, TakeTask, Enter, GetRootSignature, GetInputLayout, Crash

\* A state that was created keeps its description and gains objects, a signature stays, and
\* what was submitted bare is remembered.
Lasting ==
    /\ \A p \in States : states[p].phase # "absent" =>
          /\ states'[p].phase # "absent" /\ states'[p].desc = states[p].desc
          /\ states[p].object > 0 => states'[p].object > 0
    /\ \A r \in Sigs : sigs[r].made \subseteq sigs'[r].made
    /\ bare \subseteq bare'

\* Every step keeps all that.
LEMMA StepLasts == ASSUME Fields, DescInv, SigInv, [Next]_vars PROVE Lasting /\ StatesOK'
<1>1. \A r \in Sigs : sigs[r].made \subseteq sigs'[r].made
  BY SigStep DEF SigsStay
<1>2. CASE UNCHANGED <<states, bare>>
  BY <1>1, <1>2 DEF Lasting, DescInv, StatesOK
<1>3. ASSUME NEW p \in States, NEW d \in Descs, CreatePipelineState(p, d)
      PROVE  Lasting /\ StatesOK'
  <2>1. /\ UNCHANGED bare /\ states[p].phase = "absent"
        /\ states' = [states EXCEPT ![p].phase = "open", ![p].desc = {d}]
    BY <1>3 DEF CreatePipelineState, history
  <2>2. /\ states'[p] = [states[p] EXCEPT !.phase = "open", !.desc = {d}]
        /\ \A r \in States : r # p => states'[r] = states[r]
    BY <2>1 DEF Fields
  <2>3. states'[p].phase = "open" /\ states'[p].desc = {d}
    BY <2>2 DEF Fields
  <2>4. StatesOK'
    <3> SUFFICES ASSUME NEW r \in States
                 PROVE  /\ states'[r].phase \in Phases /\ states'[r].desc \subseteq Descs
                        /\ \A c, e \in states'[r].desc : c = e
                        /\ states'[r].phase = "absent" <=> states'[r].desc = {}
                        /\ states'[r].phase = "absent" => states'[r].dx = {}
                        /\ states'[r].phase = "made" => states'[r].object > 0
      BY DEF StatesOK
    <3>1. CASE r = p
      BY <2>3, <3>1 DEF Phases
    <3>2. CASE r # p
      <4>1. states'[r] = states[r]
        BY <2>2, <3>2
      <4>2. QED
        BY <4>1 DEF DescInv, StatesOK
    <3>3. QED
      BY <3>1, <3>2
  <2>5. QED
    BY <1>1, <2>1, <2>2, <2>4 DEF Lasting
<1>4. ASSUME NEW p \in States, SubmitState(p) PROVE Lasting /\ StatesOK'
  <2>1. UNCHANGED states /\ bare \subseteq bare'
    BY <1>4 DEF SubmitState, maps
  <2>2. QED
    BY <1>1, <2>1 DEF Lasting, DescInv, StatesOK
<1>5. ASSUME NEW w \in Workers, Work(w) PROVE Lasting /\ StatesOK'
  <2> DEFINE p == task[w]
  <2>1. UNCHANGED bare
    BY <1>5, WorkAlone DEF DescInv
  <2>2. p \in States /\ \A r \in States : r # p => states'[r] = states[r]
    BY <1>5, WorkOn DEF DescInv
  <2>3. \/ states'[p] = states[p]
        \/ /\ states[p].phase = "open"
           /\ states'[p].phase = states[p].phase /\ states'[p].desc = states[p].desc
           /\ states'[p].object = states[p].object + 1
        \/ /\ at[w] = "reset" /\ states'[p].phase = "made"
           /\ states'[p].desc = states[p].desc /\ states'[p].object = states[p].object
    BY <1>5, WorkOn DEF DescInv
  <2>4. /\ states[p].object \in Nat
        /\ at[w] = "reset" => states[p].object > 0 /\ p \in UnderWay
    BY <2>2 DEF Fields, DescInv, HandOK, UnderWay
  <2>5. at[w] = "reset" => states[p].phase # "absent"
    BY <2>4 DEF DescInv, WayOK
  <2> HIDE DEF p
  <2>6. StatesOK'
    <3> SUFFICES ASSUME NEW r \in States
                 PROVE  /\ states'[r].phase \in Phases /\ states'[r].desc \subseteq Descs
                        /\ \A d, e \in states'[r].desc : d = e
                        /\ states'[r].phase = "absent" <=> states'[r].desc = {}
                        /\ states'[r].phase = "absent" => states'[r].dx = {}
                        /\ states'[r].phase = "made" => states'[r].object > 0
      BY DEF StatesOK
    <3>1. CASE states'[r] = states[r]
      BY <3>1 DEF DescInv, StatesOK
    <3>2. CASE r = p /\ states'[p] # states[p]
      BY <2>2, <2>3, <2>4, <2>5, <3>2 DEF DescInv, StatesOK, Phases
    <3>3. QED
      BY <2>2, <3>1, <3>2
  <2>7. \A r \in States : states[r].phase # "absent" =>
          /\ states'[r].phase # "absent" /\ states'[r].desc = states[r].desc
          /\ states[r].object > 0 => states'[r].object > 0
    <3> SUFFICES ASSUME NEW r \in States, states[r].phase # "absent"
                 PROVE  /\ states'[r].phase # "absent" /\ states'[r].desc = states[r].desc
                        /\ states[r].object > 0 => states'[r].object > 0
      OBVIOUS
    <3>1. CASE states'[r] = states[r]
      BY <3>1
    <3>2. CASE r = p /\ states'[p] # states[p]
      BY <2>3, <2>4, <3>2
    <3>3. QED
      BY <2>2, <3>1, <3>2
  <2>8. QED
    BY <1>1, <2>1, <2>6, <2>7 DEF Lasting
<1>6. CASE Swap
  BY <1>2, <1>6 DEF Swap, maps
<1>7. QED
  BY <1>2, <1>3, <1>4, <1>5, <1>6, StepKinds

\* What fits a state goes on to fit it.
LEMMA FitsOn ==
  ASSUME StatesOK, Lasting, NEW p \in States, states[p].phase # "absent"
  PROVE  /\ SigOf(p)' = SigOf(p) /\ SigOf(p) \in Sigs
         /\ (p \notin bare => sigs[SigOf(p)].made # {}) =>
               (p \notin bare' => sigs'[SigOf(p)'].made # {})
<1>1. SigOf(p)' = SigOf(p)
  BY DEF Lasting, SigOf
<1>2. SigOf(p) \in Sigs
  BY SigOfIs
<1>3. sigs[SigOf(p)].made \subseteq sigs'[SigOf(p)].made /\ bare \subseteq bare'
  BY <1>2 DEF Lasting
<1>4. QED
  BY <1>1, <1>2, <1>3

\* The same of one signature.
LEMMA FitKept ==
  ASSUME StatesOK, Lasting, NEW p \in States, states[p].phase # "absent", NEW s, Fits(p, s)
  PROVE  Fits(p, s)'
<1>1. SigOf(p)' = SigOf(p) /\ SigOf(p) \in Sigs
  BY FitsOn
<1>2. sigs[SigOf(p)].made \subseteq sigs'[SigOf(p)].made /\ bare \subseteq bare'
  BY <1>1 DEF Lasting
<1>3. s \subseteq sigs'[SigOf(p)'].made /\ (p \notin bare' => s # {})
  BY <1>1, <1>2 DEF Fits
<1>4. QED
  BY <1>3 DEF Fits

-----------------------------------------------------------------------------
(***************************************************************************)
(* The turns of the compilation.                                           *)
(***************************************************************************)

\* Compiling the signature again changes nothing: it was created, or has nothing to be
\* created from.
Ready(r) == sigs[r].made # {} \/ sigs[r].params = <<>>

TurnInv ==
    /\ call \in {"none", "sigs", "states"} /\ todo \subseteq Sigs \cup States
    /\ call = "sigs" => \A r \in Sigs \ todo : Ready(r)
    /\ call = "states" => /\ \A r \in Sigs : Ready(r)
                          /\ todo \subseteq {p \in States : states[p].phase # "absent"}

\* The compilation of a signature leaves it ready, or ends the call.
LEMMA CompileTurn ==
  ASSUME FillInv, TurnInv, NEW r \in Sigs, CompileSignature(r)
  PROVE  TurnInv'
<1> DEFINE s == sigs[r]
<1>1. /\ call = "sigs" /\ r \in todo /\ DOMAIN sigs = Sigs
      /\ DOMAIN s = {"phase", "params", "ranges", "size", "made"}
  BY DEF CompileSignature, FillInv, SigType
<1>2. CASE call' = "none" /\ todo' = {}
  BY <1>2 DEF TurnInv
<1>3. CASE UNCHANGED sigs /\ Ready(r) /\ todo' = todo \ {r} /\ call' = call
  BY <1>1, <1>3 DEF TurnInv, Ready
<1>4. CASE /\ todo' = todo \ {r} /\ call' = call
           /\ sigs' = [sigs EXCEPT ![r] =
                 [@ EXCEPT !.phase = "made", !.params = <<>>, !.ranges = <<>>,
                           !.made = {Prepared(s).params}]]
  <2>1. sigs'[r].params = <<>> /\ \A q \in Sigs : q # r => sigs'[q] = sigs[q]
    BY <1>1, <1>4
  <2>2. QED
    BY <1>1, <1>4, <2>1 DEF TurnInv, Ready
<1>5. s.phase = "made" => Ready(r)
  BY DEF FillInv, SigOK, Ready
<1>6. QED
  BY <1>2, <1>3, <1>4, <1>5 DEF CompileSignature, Throws, Advance, Ready

\* Every step keeps the turns.
LEMMA TurnStep ==
  ASSUME Fields, DescInv, SigInv, FillInv, TurnInv, [Next]_vars
  PROVE  TurnInv'
<1>0. \A p \in States : states[p].phase # "absent" => states'[p].phase # "absent"
  BY StepLasts DEF Lasting
<1>1. ASSUME call' = "none", todo' = todo PROVE TurnInv'
  BY <1>1 DEF TurnInv
<1>2. ASSUME UNCHANGED <<sigs, call, todo>> PROVE TurnInv'
  BY <1>0, <1>2 DEF TurnInv, Ready
<1>3. ASSUME Calls PROVE TurnInv'
  BY <1>1, <1>3 DEF Calls
<1>4. ASSUME NEW r \in Sigs, NEW entry, NEW s, Fill(r, entry, s) PROVE TurnInv'
  BY <1>3, <1>4 DEF Fill
<1>5. ASSUME NEW r \in Sigs,
             \/ CreateRootSignature(r) \/ \E n \in Values : AddConstant(r, n)
             \/ \E v \in Views : AddDescriptor(r, v)
             \/ AddDescriptorTable(r)
             \/ \E i \in 0..Len(sigs[r].ranges) - 1, t \in RangeTypes : AddDescriptorRange(r, i, t)
      PROVE  TurnInv'
  BY <1>3, <1>4, <1>5 DEF CreateRootSignature, AddConstant, AddDescriptor, AddDescriptorTable,
     AddDescriptorRange
<1>6. ASSUME NEW l, NEW p, NEW d,
             CreateInputLayout(l) \/ AddInput(l) \/ CreatePipelineState(p, d)
      PROVE  TurnInv'
  BY <1>3, <1>6 DEF CreateInputLayout, AddInput, CreatePipelineState
<1>7. CASE Compile
  <2>1. call' = "sigs" /\ todo' = {r \in Sigs : sigs[r].phase # "absent"} /\ UNCHANGED sigs
    BY <1>7 DEF Compile, maps
  <2>2. \A r \in Sigs : sigs[r].phase = "absent" => Ready(r)
    BY DEF FillInv, SigOK, Ready
  <2>3. QED
    BY <2>1, <2>2 DEF TurnInv, Ready
<1>8. CASE CompileStates
  <2>1. call = "sigs" /\ todo = {} /\ call' = "states" /\ UNCHANGED <<sigs, states>>
        /\ todo' = {p \in States : states[p].phase # "absent"}
    BY <1>8 DEF CompileStates, StatesTurn, maps
  <2>2. QED
    BY <2>1 DEF TurnInv, Ready
<1>9. ASSUME NEW p \in States, SubmitState(p) PROVE TurnInv'
  <2>1. call = "states" /\ call' = call /\ todo' = todo \ {p} /\ UNCHANGED <<sigs, states>>
    BY <1>9 DEF SubmitState, Advance, maps
  <2>2. QED
    BY <2>1 DEF TurnInv, Ready
<1>10. CASE CompileDone
  BY <1>1, <1>10 DEF CompileDone
<1>11. CASE Swap \/ (\E w \in Workers : Work(w)) \/ UNCHANGED vars
  BY <1>2, <1>11 DEF Swap, Work, TakeTask, Enter, GetRootSignature, GetInputLayout, CreateState,
     Reset, Uses, Works, vars, maps
<1>12. QED
  BY <1>5, <1>6, <1>7, <1>8, <1>9, <1>10, <1>11, CompileTurn DEF Next, Application

-----------------------------------------------------------------------------
(***************************************************************************)
(* The states on their way.                                                *)
(***************************************************************************)

\* A state gets on its way by being submitted only.
LEMMA OnItsWay ==
  ASSUME Fields, HandOK, [Next]_vars, NEW p \in UnderWay'
  PROVE  p \in UnderWay \/ (p \in States /\ SubmitState(p))
<1>1. p \in States
  BY DEF UnderWay
<1>2. CASE UNCHANGED <<gen, at, task>>
  BY <1>2 DEF UnderWay, Waits
<1>3. ASSUME NEW q \in States, SubmitState(q) PROVE p \in UnderWay \/ SubmitState(p)
  <2>1. UNCHANGED <<at, task>> /\ gen' = [gen EXCEPT ![0] = Append(@, q)]
    BY <1>3 DEF SubmitState, CompileSlot, workers
  <2>2. gen[0] \in Seq(States) /\ gen \in [Slots -> Seq(States)] /\ 0 \in Slots
    BY DEF Fields, Slots
  <2>3. PICK a : a = Append(gen[0], q)
    OBVIOUS
  <2>4. \A i \in DOMAIN a : a[i] = q \/ (i \in DOMAIN gen[0] /\ a[i] = gen[0][i])
    BY <2>2, <2>3
  <2>5. \A s \in Slots : gen'[s] = IF s = 0 THEN a ELSE gen[s]
    BY <2>1, <2>2, <2>3
  <2>6. Waits(p)' => p = q \/ Waits(p)
    BY <2>2, <2>4, <2>5 DEF Waits
  <2>7. QED
    BY <1>1, <1>3, <2>1, <2>6 DEF UnderWay
<1>4. CASE Swap
  <2>1. UNCHANGED <<at, task>> /\ gen' \in {Rotated(gen), [s \in Slots |-> <<>>]}
    BY <1>4 DEF Swap, workers
  <2>2. \A s \in Slots : gen'[s] = <<>> \/ \E u \in Slots : gen'[s] = gen[u]
    <3>1. \A s \in Slots : (s + 1) % 3 \in Slots
      BY DEF Slots
    <3>2. QED
      BY <2>1, <3>1 DEF Rotated
  <2>3. Waits(p)' => Waits(p)
    BY <2>2 DEF Waits
  <2>4. QED
    BY <1>1, <2>1, <2>3 DEF UnderWay
<1>5. ASSUME NEW w \in Workers, Work(w) PROVE p \in UnderWay
  <2>1. \A v \in Workers : v # w => at'[v] = at[v] /\ task'[v] = task[v]
    BY <1>5, WorkAlone
  <2>2. CASE TakeTask(w)
    <3>1. /\ gen[0] # <<>> /\ gen' = [gen EXCEPT ![0] = Tail(@)]
          /\ task' = [task EXCEPT ![w] = Head(gen[0])]
      BY <2>2 DEF TakeTask
    <3>2. gen[0] \in Seq(States) /\ gen \in [Slots -> Seq(States)] /\ 0 \in Slots
      BY DEF Fields, Slots
    <3>3. PICK a : a = Tail(gen[0])
      OBVIOUS
    <3>4. /\ \A i \in DOMAIN a : \E j \in DOMAIN gen[0] : a[i] = gen[0][j]
          /\ Head(gen[0]) = gen[0][1] /\ 1 \in DOMAIN gen[0]
      <4>1. /\ a = Tail(gen[0]) /\ Len(gen[0]) \in Nat \ {0}
            /\ DOMAIN gen[0] = 1..Len(gen[0]) /\ DOMAIN a = 1..(Len(gen[0]) - 1)
            /\ \A i \in DOMAIN a : a[i] = gen[0][i + 1]
        BY <3>1, <3>2, <3>3
      <4>2. PICK n \in Nat \ {0} : n = Len(gen[0])
        BY <4>1
      <4>3. DOMAIN gen[0] = 1..n /\ DOMAIN a = 1..(n - 1)
        BY <4>1, <4>2
      <4>4. \A i \in 1..(n - 1) : i + 1 \in 1..n
        BY <4>2
      <4>5. \A i \in DOMAIN a : \E j \in DOMAIN gen[0] : a[i] = gen[0][j]
        BY <4>1, <4>3, <4>4
      <4>6. QED
        BY <3>2, <4>2, <4>3, <4>5
    <3>5. \A s \in Slots : gen'[s] = IF s = 0 THEN a ELSE gen[s]
      BY <3>1, <3>2, <3>3
    <3>6. Waits(p)' => Waits(p)
      BY <3>2, <3>4, <3>5 DEF Waits
    <3>7. task'[w] = p => Waits(p)
      BY <3>1, <3>2, <3>4 DEF Waits, Fields
    <3>8. QED
      BY <1>1, <2>1, <3>6, <3>7 DEF UnderWay
  <2>3. CASE ~TakeTask(w)
    <3>1. gen' = gen /\ at[w] # "idle"
      BY <1>5, <2>3 DEF Work, Enter, GetRootSignature, GetInputLayout, CreateState, Reset, Uses
    <3>2. at'[w] = "idle" \/ task'[w] = task[w]
      BY <1>5, <2>3 DEF Work, Enter, GetRootSignature, GetInputLayout, CreateState, Reset,
         Uses, Go, Finish, Crash, workers, Fields
    <3>3. Waits(p)' => Waits(p)
      BY <3>1 DEF Waits
    <3>4. QED
      BY <1>1, <2>1, <3>1, <3>2, <3>3 DEF UnderWay
  <2>4. QED
    BY <2>2, <2>3
<1>6. CASE \E q \in States, d \in Descs : CreatePipelineState(q, d)
  BY <1>2, <1>6 DEF CreatePipelineState, Calls, workers
<1>7. QED
  BY <1>1, <1>2, <1>3, <1>4, <1>5, <1>6, StepKinds

\* Every step keeps what is known of the states on their way.
LEMMA WayStep ==
  ASSUME Fields, DescInv, SigInv, FillInv, TurnInv, [Next]_vars
  PROVE  WayOK' /\ bare' \subseteq States
<1>1. Lasting /\ StatesOK /\ StatesOK'
  BY StepLasts DEF DescInv
<1>2. ASSUME NEW p \in UnderWay, p \in States
      PROVE  states'[p].phase # "absent" /\ (p \notin bare' => sigs'[SigOf(p)'].made # {})
  <2>1. states[p].phase # "absent" /\ (p \notin bare => sigs[SigOf(p)].made # {})
    BY DEF DescInv, WayOK
  <2>2. QED
    BY <1>1, <1>2, <2>1, FitsOn DEF Lasting
<1>3. ASSUME NEW p \in States, SubmitState(p)
      PROVE  states'[p].phase # "absent" /\ (p \notin bare' => sigs'[SigOf(p)'].made # {})
  <2>1. call = "states" /\ p \in todo /\ UNCHANGED <<sigs, states>>
        /\ bare' = IF ParamCalls(log[SigOf(p)]) = {} THEN bare \cup {p} ELSE bare
    BY <1>3 DEF SubmitState, maps
  <2>2. states[p].phase # "absent" /\ SigOf(p)' = SigOf(p) /\ SigOf(p) \in Sigs
    <3>1. states[p].phase # "absent"
      BY <2>1 DEF TurnInv
    <3>2. QED
      BY <1>1, <3>1, FitsOn
  <2>3. ASSUME p \notin bare' PROVE sigs[SigOf(p)].made # {}
    <3> DEFINE r == SigOf(p)
    <3>1. ParamCalls(log[r]) # {}
      BY <2>1, <2>3
    <3>2. /\ log[r] \in Seq(Entry) /\ SigOK(sigs[r], log[r], cost[r], r \in failed)
          /\ Ready(r)
      BY <2>1, <2>2 DEF FillInv, TurnInv
    <3>3. ASSUME sigs[r].made = {} PROVE FALSE
      <4>1. Counted(sigs[r], log[r]) /\ sigs[r].params = <<>>
        BY <3>2, <3>3 DEF SigOK, Ready
      <4>2. PICK i : i \in ParamCalls(log[r])
        BY <3>1
      <4>3. ParamCalls(log[r]) \in SUBSET (1..Len(log[r])) /\ Len(log[r]) \in Nat
        BY <3>2 DEF ParamCalls
      <4>4. Rank(ParamCalls(log[r]), i) \in 1..Cardinality(ParamCalls(log[r]))
        BY <4>2, <4>3, RankIn
      <4>5. DOMAIN sigs[r].params = {}
        BY <4>1
      <4>6. QED
        BY <4>1, <4>4, <4>5 DEF Counted
    <3>4. QED
      BY <3>3
  <2>4. QED
    BY <2>1, <2>2, <2>3
<1>4. WayOK'
  <2> SUFFICES ASSUME NEW p \in UnderWay'
               PROVE  states'[p].phase # "absent" /\ (p \notin bare' => sigs'[SigOf(p)'].made # {})
    BY DEF WayOK
  <2>1. p \in States
    BY DEF UnderWay
  <2>2. p \in UnderWay \/ SubmitState(p)
    BY OnItsWay DEF DescInv
  <2>3. QED
    BY <1>2, <1>3, <2>1, <2>2
<1>5. bare' \subseteq States
  <2>1. bare' = bare \/ \E p \in States : bare' = bare \cup {p}
    <3>1. CASE \E w \in Workers : Work(w)
      BY <3>1, WorkAlone DEF DescInv
    <3>2. CASE ~\E w \in Workers : Work(w)
      BY <3>2, StepKinds DEF CreatePipelineState, SubmitState, Swap, history
    <3>3. QED
      BY <3>1, <3>2
  <2>2. QED
    BY <2>1 DEF DescInv
<1>6. QED
  BY <1>4, <1>5

\* What the signature lookup finds is what the state should have.
LEMMA FoundFits ==
  ASSUME DescInv, NEW p \in UnderWay, p \in States, NEW d \in states[p].desc
  PROVE  Fits(p, sigs[d.rootSignature].made)
<1>1. states[p].phase # "absent" /\ (p \notin bare => sigs[SigOf(p)].made # {})
  BY DEF DescInv, WayOK
<1>2. SigOf(p) = d.rootSignature
  BY <1>1, SigOfIs DEF DescInv
<1>3. QED
  BY <1>1, <1>2 DEF Fits

\* What a worker at a with state p and signature s has in hand.
InHand(a, p, s) ==
    /\ a \in {"layout", "create"} => Fits(p, s)
    /\ a = "reset" => states[p].object > 0

\* Every step keeps what the workers have in hand.
LEMMA HandStep ==
  ASSUME Fields, DescInv, SigInv, [Next]_vars
  PROVE  HandOK'
<1>1. Lasting /\ StatesOK /\ StatesOK'
  BY StepLasts DEF DescInv
<1>2. /\ DOMAIN at = Workers /\ DOMAIN task = Workers /\ DOMAIN desc = Workers
      /\ \A v \in Workers : DOMAIN desc[v] = {"sig", "inputs"} /\ task[v] \in States
  BY DEF Fields, DescInv, HandOK
<1>3. ASSUME NEW v \in Workers, NEW a, NEW p, NEW s,
             a = at[v], p = task[v], s = desc[v].sig
      PROVE  /\ p \in States /\ InHand(a, p, s) /\ InHand(a, p, s)'
             /\ a # "idle" => p \in UnderWay /\ states[p].phase # "absent"
  <2>1. p \in States /\ InHand(a, p, s) /\ (a # "idle" => p \in UnderWay)
    BY <1>2, <1>3 DEF DescInv, HandOK, UnderWay, InHand
  <2>2. a # "idle" => states[p].phase # "absent"
    BY <2>1 DEF DescInv, WayOK
  <2>3. a = "reset" => states'[p].object > 0
    BY <1>1, <2>1, <2>2 DEF Lasting, InHand
  <2>4. a \in {"layout", "create"} => Fits(p, s)'
    BY <1>1, <2>1, <2>2, FitKept DEF InHand
  <2>5. QED
    BY <2>1, <2>2, <2>3, <2>4 DEF InHand
<1>4. ASSUME \A v \in Workers : at'[v] = "idle" => task'[v] = NoState /\ desc'[v] = NoDesc,
             DOMAIN desc' = Workers, \A v \in Workers : DOMAIN desc'[v] = {"sig", "inputs"},
             \A v \in Workers : \E a, p, s : /\ a = at'[v] /\ p = task'[v] /\ s = desc'[v].sig
                                             /\ InHand(a, p, s)'
      PROVE  HandOK'
  <2>1. ASSUME NEW v \in Workers
        PROVE  /\ at'[v] \in {"layout", "create"} => Fits(task[v], desc[v].sig)'
               /\ at'[v] = "reset" => states'[task'[v]].object > 0
    <3>1. PICK a, p, s : /\ a = at'[v] /\ p = task'[v] /\ s = desc'[v].sig
                         /\ InHand(a, p, s)'
      BY <1>4
    <3>2. QED
      BY <3>1 DEF InHand, Fits, SigOf
  <2>2. QED
    BY <1>4, <2>1 DEF HandOK
<1>5. ASSUME NEW v \in Workers, at'[v] = at[v], task'[v] = task[v], desc'[v] = desc[v]
      PROVE  /\ at'[v] = "idle" => task'[v] = NoState /\ desc'[v] = NoDesc
             /\ \E a, p, s : /\ a = at'[v] /\ p = task'[v] /\ s = desc'[v].sig
                             /\ InHand(a, p, s)'
  <2>1. PICK a, p, s : a = at[v] /\ p = task[v] /\ s = desc[v].sig
    OBVIOUS
  <2>2. InHand(a, p, s)'
    BY <1>3, <2>1
  <2>3. at[v] = "idle" => task[v] = NoState /\ desc[v] = NoDesc
    BY DEF DescInv, HandOK
  <2>4. QED
    BY <1>5, <2>1, <2>2, <2>3
<1>6. CASE UNCHANGED <<at, task, desc>>
  <2>1. DOMAIN desc' = Workers /\ \A v \in Workers : DOMAIN desc'[v] = {"sig", "inputs"}
    BY <1>2, <1>6
  <2>2. \A v \in Workers : at'[v] = at[v] /\ task'[v] = task[v] /\ desc'[v] = desc[v]
    BY <1>6
  <2>3. QED
    BY <1>4, <1>5, <2>1, <2>2
<1>7. ASSUME NEW w \in Workers, Work(w) PROVE HandOK'
  <2>1. /\ \A v \in Workers : v # w => at'[v] = at[v] /\ task'[v] = task[v] /\ desc'[v] = desc[v]
        /\ DOMAIN desc' = Workers /\ \A v \in Workers : DOMAIN desc'[v] = {"sig", "inputs"}
        /\ UNCHANGED <<sigs, bare>>
    BY <1>7, WorkAlone DEF DescInv
  <2>2. PICK p \in States : p = task[w]
    BY <1>2
  <2>3. ASSUME NEW a, NEW r, NEW s, a = at'[w], r = task'[w], s = desc'[w].sig,
               InHand(a, r, s)', a = "idle" => task'[w] = NoState /\ desc'[w] = NoDesc
        PROVE  HandOK'
    <3>1. \E b, q, t : /\ b = at'[w] /\ q = task'[w] /\ t = desc'[w].sig /\ InHand(b, q, t)'
      BY <2>3
    <3>2. ASSUME NEW v \in Workers
          PROVE  /\ at'[v] = "idle" => task'[v] = NoState /\ desc'[v] = NoDesc
                 /\ \E b, q, t : /\ b = at'[v] /\ q = task'[v] /\ t = desc'[v].sig
                                 /\ InHand(b, q, t)'
      <4>1. CASE v = w
        BY <2>3, <3>1, <4>1
      <4>2. CASE v # w
        BY <1>5, <2>1, <4>2
      <4>3. QED
        BY <4>1, <4>2
    <3>3. QED
      BY <1>4, <2>1, <3>2
  <2>4. CASE TakeTask(w) \/ Enter(w) \/ Reset(w)
    <3>1. PICK a, r, s : a = at'[w] /\ r = task'[w] /\ s = desc'[w].sig
      OBVIOUS
    <3>2. CASE UNCHANGED workers
      BY <1>6, <3>2 DEF workers
    <3>3. CASE ~UNCHANGED workers
      <4>1. \/ at' = [at EXCEPT ![w] = "enter"] \/ at' = [at EXCEPT ![w] = "sig"]
            \/ Finish(w)
        BY <2>4, <3>3 DEF TakeTask, Enter, Reset, Go, Crash
      <4>2. a \in {"enter", "sig"} \/ (a = "idle" /\ task'[w] = NoState /\ desc'[w] = NoDesc)
        BY <1>2, <3>1, <4>1 DEF Finish, Go
      <4>3. InHand(a, r, s)'
        BY <4>2 DEF InHand
      <4>4. a = "idle" => task'[w] = NoState /\ desc'[w] = NoDesc
        BY <4>2
      <4>5. QED
        BY <2>3, <3>1, <4>3, <4>4
    <3>4. QED
      BY <3>2, <3>3
  <2>5. CASE UNCHANGED workers
    BY <1>6, <2>5 DEF workers
  <2>6. CASE GetRootSignature(w) /\ ~UNCHANGED workers
    <3>1. /\ at[w] = "sig" /\ Described(w) /\ task' = task
          /\ at' = [at EXCEPT ![w] = "layout"]
          /\ desc' = [desc EXCEPT ![w].sig = sigs[DescOf(w).rootSignature].made]
      BY <2>6 DEF GetRootSignature, Uses, Crash, Go
    <3>2. DescOf(w) \in states[p].desc /\ p \in UnderWay /\ states[p].phase # "absent"
      <4>1. states[p].phase = "open"
        BY <2>2, <3>1 DEF Described
      <4>2. PICK d : d \in states[p].desc
        BY <4>1 DEF DescInv, StatesOK
      <4>3. QED
        BY <2>2, <3>1, <4>1, <4>2 DEF DescOf, UnderWay
    <3>3. PICK s : s = sigs[DescOf(w).rootSignature].made
      OBVIOUS
    <3>4. Fits(p, s)
      BY <3>2, <3>3, FoundFits
    <3>5. Fits(p, s)'
      BY <1>1, <3>2, <3>4, FitKept
    <3>6. "layout" = at'[w] /\ p = task'[w] /\ s = desc'[w].sig
      BY <1>2, <2>2, <3>1, <3>3
    <3>7. InHand("layout", p, s)'
      BY <3>5 DEF InHand
    <3>8. QED
      BY <2>3, <3>6, <3>7
  <2>7. CASE GetInputLayout(w) /\ ~UNCHANGED workers
    <3>1. /\ at[w] = "layout" /\ task' = task /\ at' = [at EXCEPT ![w] = "create"]
          /\ \E x : desc' = [desc EXCEPT ![w].inputs = x]
      BY <2>7 DEF GetInputLayout, Uses, Crash, Go
    <3>2. PICK s : s = desc[w].sig
      OBVIOUS
    <3>3. "create" = at'[w] /\ p = task'[w] /\ s = desc'[w].sig
      BY <1>2, <2>2, <3>1, <3>2
    <3>4. InHand("layout", p, s)'
      BY <1>3, <2>2, <3>1, <3>2
    <3>5. InHand("create", p, s)'
      BY <3>4 DEF InHand
    <3>6. QED
      BY <2>3, <3>3, <3>5
  <2>8. CASE CreateState(w) /\ ~UNCHANGED workers
    <3>1. /\ task' = task /\ at' = [at EXCEPT ![w] = "reset"] /\ ~Crash("reset")
          /\ ~Crash("layout") /\ ~Crash("device")
      BY <2>8 DEF CreateState, Uses, Crash, Go
    <3>2. states' = [states EXCEPT
               ![p].object = @ + 1,
               ![p].dx = {[sig |-> desc[w].sig, dx |-> Converted(DescOf(w))]}]
      BY <2>2, <2>8, <3>1 DEF CreateState, Uses
    <3>3. states'[p].object = states[p].object + 1
      BY <3>2 DEF Fields
    <3>4. states'[p].object > 0
      BY <3>3 DEF Fields
    <3>5. PICK s : s = desc'[w].sig
      OBVIOUS
    <3>6. "reset" = at'[w] /\ p = task'[w]
      BY <1>2, <2>2, <3>1
    <3>7. InHand("reset", p, s)'
      BY <3>4 DEF InHand
    <3>8. QED
      BY <2>3, <3>5, <3>6, <3>7
  <2>9. QED
    BY <1>7, <2>4, <2>5, <2>6, <2>7, <2>8 DEF Work
<1>8. CASE \/ \E p \in States : SubmitState(p)
           \/ Swap
           \/ \E p \in States, d \in Descs : CreatePipelineState(p, d)
  BY <1>6, <1>8 DEF SubmitState, Swap, CreatePipelineState, Calls, workers
<1>9. QED
  BY <1>6, <1>7, <1>8, StepKinds

\* Every step keeps what was created.
LEMMA MadeStep ==
  ASSUME Fields, DescInv, SigInv, [Next]_vars
  PROVE  MadeOK'
<1>1. Lasting /\ StatesOK /\ StatesOK'
  BY StepLasts DEF DescInv
<1>2. ASSUME NEW p \in States, states'[p].dx = states[p].dx, NEW q \in states'[p].dx
      PROVE  (\E d \in states'[p].desc : q.dx = Converted(d)) /\ Fits(p, q.sig)'
  <2>1. /\ states[p].phase # "absent"
        /\ \E d \in states[p].desc : q.dx = Converted(d)
        /\ Fits(p, q.sig)
    BY <1>2 DEF DescInv, StatesOK, MadeOK
  <2>2. states'[p].desc = states[p].desc
    BY <1>1, <2>1 DEF Lasting
  <2>3. PICK s : s = q.sig
    OBVIOUS
  <2>4. Fits(p, s)
    BY <2>1, <2>3
  <2>5. Fits(p, s)'
    BY <1>1, <2>1, <2>4, FitKept
  <2>6. Fits(p, q.sig)'
    BY <2>3, <2>5
  <2>7. QED
    BY <2>1, <2>2, <2>6
<1>3. ASSUME \A p \in States : states'[p].dx = states[p].dx PROVE MadeOK'
  BY <1>2, <1>3 DEF MadeOK
<1>4. ASSUME NEW w \in Workers, Work(w) PROVE MadeOK'
  <2>1. PICK p \in States : p = task[w]
    BY DEF Fields
  <2>2. \A r \in States : r # p => states'[r] = states[r]
    BY <1>4, <2>1, WorkOn DEF DescInv
  <2>3. CASE states'[p].dx = states[p].dx
    BY <1>3, <2>2, <2>3
  <2>4. CASE /\ at[w] = "create" /\ states[p].phase = "open"
             /\ states'[p].desc = states[p].desc
             /\ states'[p].dx = {[sig |-> desc[w].sig, dx |-> Converted(DescOf(w))]}
    <3>1. DescOf(w) \in states[p].desc
      <4>1. PICK d : d \in states[p].desc
        BY <2>4 DEF DescInv, StatesOK
      <4>2. QED
        BY <2>1, <4>1 DEF DescOf
    <3>2. PICK s : s = desc[w].sig
      OBVIOUS
    <3>3. Fits(p, s)
      BY <2>1, <2>4, <3>2 DEF DescInv, HandOK
    <3>4. Fits(p, s)'
      BY <1>1, <2>4, <3>3, FitKept
    <3>5. ASSUME NEW q \in states'[p].dx
          PROVE  (\E d \in states'[p].desc : q.dx = Converted(d)) /\ Fits(p, q.sig)'
      <4>1. q.sig = s /\ q.dx = Converted(DescOf(w))
        BY <2>4, <3>2
      <4>2. Fits(p, q.sig)'
        BY <3>4, <4>1
      <4>3. QED
        BY <2>4, <3>1, <4>1, <4>2
    <3>6. \A r \in States : r # p => states'[r].dx = states[r].dx
      BY <2>2
    <3>7. ASSUME NEW r \in States, NEW q \in states'[r].dx
          PROVE  (\E d \in states'[r].desc : q.dx = Converted(d)) /\ Fits(r, q.sig)'
      BY <1>2, <3>5, <3>6, <3>7
    <3>8. QED
      BY <3>7 DEF MadeOK
  <2>5. QED
    BY <1>4, <2>1, <2>3, <2>4, WorkOn DEF DescInv
<1>5. ASSUME NEW p \in States, NEW d \in Descs, CreatePipelineState(p, d) PROVE MadeOK'
  <2>1. states' = [states EXCEPT ![p].phase = "open", ![p].desc = {d}]
    BY <1>5 DEF CreatePipelineState
  <2>2. states'[p] = [states[p] EXCEPT !.phase = "open", !.desc = {d}]
        /\ \A r \in States : r # p => states'[r] = states[r]
    BY <2>1 DEF Fields
  <2>3. states'[p].dx = states[p].dx
    BY <2>2 DEF Fields
  <2>4. QED
    BY <1>3, <2>2, <2>3
<1>6. CASE UNCHANGED states
  BY <1>3, <1>6
<1>7. QED
  BY <1>4, <1>5, <1>6, StepKinds DEF SubmitState, Swap, maps

\* It holds at the start.
LEMMA DescBegins == Init => DescInv /\ TurnInv /\ LayoutInv
<1> SUFFICES ASSUME Init PROVE DescInv /\ TurnInv /\ LayoutInv
  OBVIOUS
<1>1. UnderWay = {}
  BY DEF Init, UnderWay, Waits
<1>2. StatesOK /\ MadeOK
  BY DEF Init, StatesOK, MadeOK, Phases
<1>3. HandOK
  BY DEF Init, HandOK, NoDesc
<1>4. WayOK /\ bare \subseteq States
  BY <1>1 DEF Init, WayOK
<1>5. TurnInv /\ LayoutInv
  BY DEF Init, TurnInv, LayoutInv
<1>6. QED
  BY <1>2, <1>3, <1>4, <1>5 DEF DescInv

-----------------------------------------------------------------------------
\* All that is known of the maps, the queues and the workers.
Whole == FillInv /\ SigInv /\ LayoutInv /\ StateInv /\ CrashInv /\ DescInv /\ TurnInv

\* It holds at the start.
LEMMA WholeBegins == Init => Whole
<1>1. QED
  BY FillBegins, DescBegins, InitState DEF Whole

\* Every step keeps it.
LEMMA WholeStep == ASSUME Whole, [Next]_vars PROVE Whole'
<1>1. Fields /\ FillInv /\ SigInv /\ LayoutInv /\ StateInv /\ CrashInv /\ DescInv /\ TurnInv
  BY DEF Whole, StateInv
<1>2. FillInv' /\ SigInv' /\ LayoutInv' /\ StateInv' /\ CrashInv' /\ TurnInv'
  BY <1>1, FillStep, SigStep, LayoutStep, StateStep, TurnStep
<1>3. DescInv'
  BY <1>1, StepLasts, WayStep, HandStep, MadeStep DEF DescInv
<1>4. QED
  BY <1>2, <1>3 DEF Whole

\* The variables have their types and what was created has given up what it was made from.
THEOREM TypesKept == Spec => []TypeOK
<1>1. Whole => TypeOK
  <2> SUFFICES ASSUME Whole PROVE TypeOK
    OBVIOUS
  <2>1. ASSUME NEW r \in Sigs
        PROVE  LET s == sigs[r] IN
               /\ s.phase \in Phases /\ s.params \in Seq(ParamType)
               /\ s.ranges \in Seq(Seq({"CBV", "UAV", "SAMPLER", "SRV"}))
               /\ s.size \in Nat
               /\ s.made \in SUBSET Seq(ParamType)
               /\ s.made # {} <=> s.phase = "made"
    <3>1. sigs[r] \in SigType /\ (sigs[r].made # {} <=> sigs[r].phase = "made")
      BY DEF Whole, FillInv, SigOK
    <3>2. QED
      BY <3>1 DEF SigType, RangeNames
  <2>2. \A p \in States : LET q == states[p] IN
          /\ q.phase \in Phases /\ q.object \in Nat /\ q.desc \subseteq Descs
          /\ q.phase = "made" => q.object > 0
          /\ q.phase = "absent" <=> q.desc = {}
    BY DEF Whole, DescInv, StatesOK, StateInv, Fields
  <2>3. \A w \in Workers : /\ at[w] = "idle" => task[w] = NoState /\ desc[w] = NoDesc
                           /\ at[w] # "idle" => states[task[w]].phase # "absent"
    BY DEF Whole, DescInv, HandOK, WayOK, UnderWay, StateInv, Fields
  <2>4. /\ call \in {"none", "sigs", "states"} /\ todo \subseteq Sigs \cup States
        /\ failed \subseteq Sigs /\ tooLarge \subseteq failed /\ bare \subseteq States
    BY DEF Whole, TurnInv, FillInv, DescInv
  <2>5. /\ gen \in [Slots -> Seq(States)]
        /\ at \in [Workers -> Steps] /\ task \in [Workers -> States]
    BY DEF Whole, StateInv, Fields
  <2>6. layouts \in [Layouts -> [there : BOOLEAN, inputs : Nat, capacity : Nat, moved : Nat]]
    BY DEF Whole, LayoutInv
  <2>7. QED
    BY <2>1, <2>2, <2>3, <2>4, <2>5, <2>6 DEF TypeOK
<1>2. QED
  BY <1>1, WholeBegins, WholeStep, PTL DEF Spec

\* A state has the signature its description names, created before it, unless nothing had
\* been added to that one when the state was submitted.
THEOREM SignaturesComeFirst == Spec => []SignatureFirst
<1>1. Whole => SignatureFirst
  BY DEF Whole, DescInv, MadeOK, Fits, SignatureFirst
<1>2. QED
  BY <1>1, WholeBegins, WholeStep, PTL DEF Spec

\* Every created state is what its description asked for, with the signature it names.
THEOREM AllAsAsked == Spec => []CompiledAsAsked
<1>1. SamplesAgree
  <2>1. \A d \in Samples : AsAsked(Converted(d), d)
    BY Faithful, PipelineAssumption
  <2>2. \A t \in DOMAIN EDescriptorType :
           DescriptorTypeToDX(EDescriptorType[t]) = RangeType(EDescriptorType[t])
    BY NamesKept DEF OneOf
  <2>3. QED
    BY <2>1, <2>2 DEF SamplesAgree
<1>2. Whole => CompiledAsAsked
  <2> SUFFICES ASSUME Whole, NEW p \in States, NEW q \in states[p].dx, NEW d \in states[p].desc
               PROVE  AsAsked(q.dx, d) /\ q.sig \subseteq sigs[d.rootSignature].made
    BY <1>1 DEF CompiledAsAsked
  <2>1. StatesOK /\ MadeOK
    BY DEF Whole, DescInv
  <2>2. q.dx = Converted(d) /\ Fits(p, q.sig)
    BY <2>1 DEF StatesOK, MadeOK
  <2>3. d \in PipelineStateDesc
    BY <2>1, PipelineAssumption DEF StatesOK
  <2>4. AsAsked(q.dx, d)
    BY <2>2, <2>3, Faithful
  <2>5. SigOf(p) = d.rootSignature
    BY <2>1, SigOfIs DEF StatesOK
  <2>6. QED
    BY <2>2, <2>4, <2>5 DEF Fits
<1>3. QED
  BY <1>2, WholeBegins, WholeStep, PTL DEF Spec
=============================================================================
