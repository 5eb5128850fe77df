------------------------- MODULE StepExecutor_proofs -------------------------
(* What holds of the step executor for every automation: the call depth    *)
(* counts the functions in execution, with timeouts and without; and       *)
(* without them a step's jump is its own and a parameter its function's.   *)
EXTENDS StepExecutor, FiniteSetTheorems, SequenceTheorems, TLAPS

USE ExecutorAssumption

(* The innermost frame, replaced.                                          *)
LEMMA TopReplaced ==
  ASSUME NEW s \in Seq(Frame), s # <<>>, NEW f \in Frame
  PROVE  LET n == [s EXCEPT ![Len(s)] = f]
         IN /\ Len(s) \in Nat \ {0} /\ s[Len(s)] \in Frame
            /\ n \in Seq(Frame) /\ n # <<>> /\ Len(n) = Len(s)
            /\ n[Len(s)] = f
            /\ \A d \in 1 .. Len(s) - 1 : n[d] = s[d]
OBVIOUS

(* ... and put on top.                                                     *)
LEMMA FramePushed ==
  ASSUME NEW s \in Seq(Frame), NEW f \in Frame
  PROVE  LET n == Append(s, f)
         IN /\ Len(s) \in Nat
            /\ n \in Seq(Frame) /\ n # <<>> /\ Len(n) = Len(s) + 1
            /\ n[Len(s) + 1] = f
            /\ \A d \in 1 .. Len(s) : n[d] = s[d]
OBVIOUS

(* ... and taken off: what is below the depth d stays.                     *)
LEMMA FramesKept ==
  ASSUME NEW s \in Seq(Frame), NEW d \in 1 .. Len(s)
  PROVE  LET n == SubSeq(s, 1, d - 1)
         IN /\ n \in Seq(Frame) /\ Len(n) = d - 1
            /\ \A e \in 1 .. d - 1 : n[e] = s[e]
BY SubSeqProperties

-----------------------------------------------------------------------------
(* The functions of a thread are where its blocks are.                     *)
LEMMA FunctionsAgree ==
  ASSUME NEW s \in Seq(Frame), NEW n \in Seq(Frame), Len(n) = Len(s), s # <<>>,
         \A d \in 1 .. Len(s) - 1 : n[d] = s[d],
         LET top == Len(s)
         IN \/ ~Calls(s[top].step) /\ ~Calls(n[top].step)
            \/ Calls(s[top].step) /\ Calls(n[top].step) /\ (s[top].phase = "block" <=> n[top].phase = "block")
            \/ s[top].phase # "block" /\ n[top].phase # "block"
  PROVE  FunctionsOf(n) = FunctionsOf(s)
BY DEF FunctionsOf

LEMMA FunctionEntered ==
  ASSUME NEW s \in Seq(Frame), NEW n \in Seq(Frame), Len(n) = Len(s), s # <<>>,
         \A d \in 1 .. Len(s) - 1 : n[d] = s[d],
         s[Len(s)].phase # "block",
         Calls(n[Len(s)].step), n[Len(s)].phase = "block"
  PROVE  FunctionsOf(n) = FunctionsOf(s) \cup {Len(s)} /\ Len(s) \notin FunctionsOf(s)
BY DEF FunctionsOf

LEMMA FunctionLeft ==
  ASSUME NEW s \in Seq(Frame), NEW n \in Seq(Frame), Len(n) = Len(s), s # <<>>,
         \A d \in 1 .. Len(s) - 1 : n[d] = s[d],
         n[Len(s)].phase # "block",
         Calls(s[Len(s)].step), s[Len(s)].phase = "block"
  PROVE  FunctionsOf(n) = FunctionsOf(s) \ {Len(s)} /\ Len(s) \in FunctionsOf(s)
BY DEF FunctionsOf

LEMMA FunctionsPushed ==
  ASSUME NEW s \in Seq(Frame), NEW n \in Seq(Frame), Len(n) = Len(s) + 1,
         \A d \in 1 .. Len(s) : n[d] = s[d], n[Len(s) + 1].phase # "block"
  PROVE  FunctionsOf(n) = FunctionsOf(s)
BY DEF FunctionsOf

LEMMA FunctionsPopped ==
  ASSUME NEW s \in Seq(Frame), NEW n \in Seq(Frame), s # <<>>, Len(n) = Len(s) - 1,
         \A d \in 1 .. Len(s) - 1 : n[d] = s[d], s[Len(s)].phase # "block"
  PROVE  FunctionsOf(n) = FunctionsOf(s)
BY DEF FunctionsOf

-----------------------------------------------------------------------------
(* The functions of all threads.                                           *)
LEMMA FunctionsAre ==
  ASSUME NEW st
  PROVE  /\ \A x \in Functions(st) : x = <<x[1], x[2]>> /\ x[1] \in Threads
         /\ \A t, d : <<t, d>> \in Functions(st) <=> t \in Threads /\ d \in FunctionsOf(st[t])
BY DEF Functions

LEMMA CountKept ==
  ASSUME NEW st, NEW n, \A t \in Threads : FunctionsOf(n[t]) = FunctionsOf(st[t])
  PROVE  Functions(n) = Functions(st)
BY DEF Functions

LEMMA CountMore ==
  ASSUME NEW st, NEW n, NEW t \in Threads, NEW d,
         \A o \in Threads \ {t} : FunctionsOf(n[o]) = FunctionsOf(st[o]),
         FunctionsOf(n[t]) = FunctionsOf(st[t]) \cup {d}, d \notin FunctionsOf(st[t]),
         IsFiniteSet(Functions(st))
  PROVE  /\ IsFiniteSet(Functions(n))
         /\ Cardinality(Functions(n)) = Cardinality(Functions(st)) + 1
<1>1. Functions(n) = Functions(st) \cup {<<t, d>>}
  BY DEF Functions
<1>2. <<t, d>> \notin Functions(st)
  BY FunctionsAre
<1>3. QED
  BY <1>1, <1>2, FS_AddElement

LEMMA CountLess ==
  ASSUME NEW st, NEW n, NEW t \in Threads, NEW d,
         \A o \in Threads \ {t} : FunctionsOf(n[o]) = FunctionsOf(st[o]),
         FunctionsOf(n[t]) = FunctionsOf(st[t]) \ {d}, d \in FunctionsOf(st[t]),
         IsFiniteSet(Functions(st))
  PROVE  /\ IsFiniteSet(Functions(n))
         /\ Cardinality(Functions(n)) = Cardinality(Functions(st)) - 1
         /\ Cardinality(Functions(st)) - 1 \in Nat
<1>1. Functions(n) = Functions(st) \ {<<t, d>>}
  <2>1. ASSUME NEW x PROVE x \in Functions(n) <=> x \in Functions(st) \ {<<t, d>>}
    <3>1. CASE \E o, e : x = <<o, e>>
      <4>1. PICK o, e : x = <<o, e>>
        BY <3>1
      <4>2. QED
        BY <4>1, FunctionsAre
    <3>2. CASE ~\E o, e : x = <<o, e>>
      BY <3>2, FunctionsAre
    <3>3. QED
      BY <3>1, <3>2
  <2>2. QED
    BY <2>1
<1>2. <<t, d>> \in Functions(st)
  BY FunctionsAre
<1>3. IsFiniteSet(Functions(n)) /\ Cardinality(Functions(n)) = Cardinality(Functions(st)) - 1
  <2> DEFINE S == Functions(st)
             x == <<t, d>>
  <2>1. IsFiniteSet(S \ {x})
        /\ Cardinality(S \ {x}) = IF x \in S THEN Cardinality(S) - 1 ELSE Cardinality(S)
    BY FS_RemoveElement, Zenon
  <2>2. QED
    BY <1>1, <1>2, <2>1, Zenon
<1>4. Cardinality(Functions(n)) \in Nat
  BY <1>3, FS_CardinalityType
<1>5. QED
  BY <1>3, <1>4

-----------------------------------------------------------------------------
(* Parameters stay with their functions.                                   *)
LEMMA ShadowsKept ==
  ASSUME NEW s \in Seq(Frame), NEW n \in Seq(Frame), NEW v,
         FunctionsOf(n) = FunctionsOf(s),
         \A d \in FunctionsOf(s) : /\ d <= Len(s) /\ d <= Len(n)
                                   /\ n[d].step = s[d].step /\ n[d].saved = s[d].saved,
         Shadows(s, v)
  PROVE  Shadows(n, v)
<1>1. \A d \in FunctionsOf(s) : d \in Nat /\ d < Len(s) + 1 /\ d < Len(n) + 1
  BY DEF FunctionsOf
<1>2. InScope(n, Len(n) + 1, v)
  BY <1>1 DEF Shadows, InScope
<1>3. \A d \in FunctionsOf(n) : InScope(n, d, n[d].saved)
  BY <1>1 DEF Shadows, InScope
<1>4. QED
  BY <1>2, <1>3 DEF Shadows

LEMMA ShadowsEntered ==
  ASSUME NEW s \in Seq(Frame), NEW n \in Seq(Frame), s # <<>>, Len(n) = Len(s), NEW v,
         \A d \in 1 .. Len(s) - 1 : n[d] = s[d],
         FunctionsOf(n) = FunctionsOf(s) \cup {Len(s)}, Len(s) \notin FunctionsOf(s),
         n[Len(s)].saved = v,
         Shadows(s, v)
  PROVE  Shadows(n, n[Len(s)].step)
<1>0. Len(s) \in Nat \ {0}
  OBVIOUS
<1>1. \A d \in FunctionsOf(s) : d \in 1 .. Len(s) - 1 /\ n[d] = s[d]
  BY DEF FunctionsOf
<1>2. InScope(n, Len(n) + 1, n[Len(s)].step)
  BY <1>0, <1>1 DEF InScope
<1>3. InScope(n, Len(s), v)
  BY <1>0, <1>1 DEF Shadows, InScope
<1>4. \A d \in FunctionsOf(s) : InScope(n, d, n[d].saved)
  <2>1. ASSUME NEW d \in FunctionsOf(s) PROVE InScope(n, d, n[d].saved)
    <3>1. {e \in FunctionsOf(n) : e < d} = {e \in FunctionsOf(s) : e < d}
      BY <1>0, <1>1
    <3>2. InScope(s, d, s[d].saved)
      BY DEF Shadows
    <3>3. n[d].saved = s[d].saved /\ \A e \in FunctionsOf(s) : n[e].step = s[e].step
      BY <1>1
    <3>4. QED
      BY <3>1, <3>2, <3>3 DEF InScope
  <2>2. QED
    BY <2>1
<1>5. QED
  BY <1>2, <1>3, <1>4 DEF Shadows

LEMMA ShadowsLeft ==
  ASSUME NEW s \in Seq(Frame), NEW n \in Seq(Frame), s # <<>>, Len(n) = Len(s), NEW v,
         \A d \in 1 .. Len(s) - 1 : n[d] = s[d],
         FunctionsOf(n) = FunctionsOf(s) \ {Len(s)}, Len(s) \in FunctionsOf(s),
         Shadows(s, v)
  PROVE  Shadows(n, s[Len(s)].saved)
<1>0. Len(s) \in Nat \ {0}
  OBVIOUS
<1>1. \A d \in FunctionsOf(n) : d \in 1 .. Len(s) - 1 /\ n[d] = s[d]
  BY DEF FunctionsOf
<1>2. InScope(n, Len(n) + 1, s[Len(s)].saved)
  <2>1. {e \in FunctionsOf(n) : e < Len(n) + 1} = {e \in FunctionsOf(s) : e < Len(s)}
    BY <1>0, <1>1 DEF FunctionsOf
  <2>2. InScope(s, Len(s), s[Len(s)].saved)
    BY DEF Shadows
  <2>3. \A e \in {x \in FunctionsOf(n) : x < Len(n) + 1} : n[e].step = s[e].step
    BY <1>1
  <2>4. QED
    BY <2>1, <2>2, <2>3 DEF InScope
<1>3. ASSUME NEW d \in FunctionsOf(n) PROVE InScope(n, d, n[d].saved)
  <2>1. {e \in FunctionsOf(n) : e < d} = {e \in FunctionsOf(s) : e < d}
    BY <1>0, <1>1
  <2>2. InScope(s, d, s[d].saved)
    BY DEF Shadows
  <2>3. n[d].saved = s[d].saved /\ \A e \in FunctionsOf(n) : n[e].step = s[e].step
    BY <1>1
  <2>4. QED
    BY <2>1, <2>2, <2>3 DEF InScope
<1>4. QED
  BY <1>2, <1>3 DEF Shadows

-----------------------------------------------------------------------------
(* What of the state is no stack, no job and no count.                     *)
Context ==
  /\ timed \subseteq Timeable
  /\ pendingJump \in Steps \cup {None} /\ param \in Steps \cup {None}
  /\ status \in [Steps -> {"none", "success", "skipped", "failed"}]
  /\ errors \subseteq Steps
  /\ runs \in 0 .. MaxRuns /\ over \in BOOLEAN

LEMMA Parts ==
  IInv <=> /\ Context /\ job \in Job /\ stack \in [Threads -> Seq(Frame)]
           /\ callDepth \in 0 .. MaxCallDepth /\ IsFiniteSet(Functions(stack))
           /\ callDepth = Cardinality(Functions(stack))
           /\ JobFits /\ \A t \in Threads : Placed(stack[t], Busy(t), t # 0)
BY Zenon DEF IInv, TypeOK, Context, Counted, DepthCounts

(* The innermost frame of a thread that runs.                              *)
LEMMA InnerIs ==
  ASSUME IInv, NEW t \in Threads, Running(t)
  PROVE  /\ stack[t] \in Seq(Frame) /\ stack[t] # <<>>
         /\ Len(stack[t]) \in Nat \ {0} /\ Len(stack[t]) \in DOMAIN stack[t]
         /\ Inner(t) = stack[t][Len(stack[t])] /\ Inner(t) \in Frame
         /\ Inner(t).phase = "block" <=> Busy(t)
<1>1. stack[t] \in Seq(Frame) /\ stack[t] # <<>>
  BY Parts DEF Running
<1>2. /\ Len(stack[t]) \in Nat \ {0} /\ Len(stack[t]) \in DOMAIN stack[t]
      /\ stack[t][Len(stack[t])] \in Frame /\ ~(Len(stack[t]) < Len(stack[t]))
  BY <1>1
<1>3. Placed(stack[t], Busy(t), t # 0)
  BY Parts
<1>4. stack[t][Len(stack[t])].phase = "block" <=> Busy(t)
  BY <1>2, <1>3, Zenon DEF Placed
<1>5. QED
  BY <1>1, <1>2, <1>4 DEF Inner

(* What a job is.                                                          *)
LEMMA JobIs ==
  /\ Idle \in Job
  /\ \A t \in Threads, s \in Steps :
       LET j == [do |-> "begin", th |-> t, step |-> s]
       IN j \in Job /\ j # Idle /\ j.do = "begin" /\ j.th = t /\ j.step = s
  /\ \A t \in Threads : LET j == [do |-> "attempt", th |-> t]
                        IN j \in Job /\ j # Idle /\ j.do = "attempt" /\ j.th = t
  /\ \A t \in Threads, s \in Steps, v \in {"continue", "abort", "jump"}, b \in Steps \cup {None} :
       LET j == [do |-> "outcome", th |-> t, step |-> s, val |-> v, by |-> b]
       IN j \in Job /\ j # Idle /\ j.do = "outcome" /\ j.th = t
          /\ j.step = s /\ j.val = v /\ j.by = b
<1>2. Idle \in Job
  BY Zenon DEF Job
<1>3. \A t \in Threads, s \in Steps :
       LET j == [do |-> "begin", th |-> t, step |-> s]
       IN j \in Job /\ j # Idle /\ j.do = "begin" /\ j.th = t /\ j.step = s
  BY DEF Job, Idle
<1>4. \A t \in Threads : LET j == [do |-> "attempt", th |-> t]
                        IN j \in Job /\ j # Idle /\ j.do = "attempt" /\ j.th = t
  BY DEF Job, Idle
<1>5. \A t \in Threads, s \in Steps, v \in {"continue", "abort", "jump"}, b \in Steps \cup {None} :
       LET j == [do |-> "outcome", th |-> t, step |-> s, val |-> v, by |-> b]
       IN j \in Job /\ j # Idle /\ j.do = "outcome" /\ j.th = t
          /\ j.step = s /\ j.val = v /\ j.by = b
  BY DEF Job, Idle
<1>6. QED
  BY <1>2, <1>3, <1>4, <1>5

LEMMA JobKinds ==
  ASSUME job \in Job
  PROVE  /\ job # Idle => job.th \in Threads /\ job.do \in {"begin", "attempt", "end", "outcome"}
         /\ Doing("begin") => job.step \in Steps
         /\ Doing("end") => job.ok \in BOOLEAN
         /\ Doing("outcome") => /\ job.step \in Steps /\ job.by \in Steps \cup {None}
                                /\ job.val \in {"continue", "abort", "jump"}
<1>1. CASE job \in [do : {"end"}, th : Threads, ok : BOOLEAN]
  BY <1>1, Zenon DEF Doing
<1>2. CASE job \in [do : {"begin"}, th : Threads, step : Steps]
  BY <1>2 DEF Doing
<1>3. CASE job \in [do : {"attempt"}, th : Threads]
  BY <1>3 DEF Doing
<1>4. CASE job \in [do : {"outcome"}, th : Threads, step : Steps,
                    val : {"continue", "abort", "jump"}, by : Steps \cup {None}]
  BY <1>4 DEF Doing
<1>5. CASE job = Idle
  BY <1>5 DEF Doing
<1>6. QED
  BY <1>1, <1>2, <1>3, <1>4, <1>5 DEF Job

-----------------------------------------------------------------------------
(* A step of one thread: the others' frames stay where they are.           *)
LEMMA ThreadStep ==
  ASSUME IInv, NEW t \in Threads,
         job = Idle \/ job.th = t, job' \in Job, job' = Idle \/ job'.th = t,
         stack' \in [Threads -> Seq(Frame)],
         \A o \in Threads \ {t} : stack'[o] = stack[o],
         Placed(stack[t], Busy(t), t # 0)',
         Context', JobFits', callDepth' \in 0 .. MaxCallDepth,
         IsFiniteSet(Functions(stack')), callDepth' = Cardinality(Functions(stack'))
  PROVE  IInv'
<1>1. ASSUME NEW o \in Threads \ {t} PROVE Placed(stack[o], Busy(o), o # 0)'
  <2>1. ~Busy(o) /\ ~Busy(o)'
    BY DEF Busy, Doing
  <2>2. Placed(stack[o], Busy(o), o # 0) /\ stack'[o] = stack[o]
    BY Parts
  <2>3. QED
    BY <2>1, <2>2, Zenon DEF Placed
<1>2. \A o \in Threads : Placed(stack[o], Busy(o), o # 0)'
  BY <1>1
<1>3. IInv' <=> /\ Context' /\ job' \in Job /\ stack' \in [Threads -> Seq(Frame)]
                /\ callDepth' \in 0 .. MaxCallDepth /\ IsFiniteSet(Functions(stack'))
                /\ callDepth' = Cardinality(Functions(stack'))
                /\ JobFits' /\ \A o \in Threads : Placed(stack[o], Busy(o), o # 0)'
  BY Zenon DEF IInv, TypeOK, Context, Counted, DepthCounts
<1>4. QED
  BY <1>2, <1>3

(* A step that leaves all frames where they are.                           *)
LEMMA JobStep ==
  ASSUME IInv, NEW t \in Threads, UNCHANGED <<stack, callDepth>>,
         job = Idle \/ job.th = t, job' \in Job, job' = Idle \/ job'.th = t,
         Busy(t)' <=> IF Running(t) THEN Busy(t) ELSE Busy(t)', Context', JobFits'
  PROVE  IInv'
<1>1. Placed(stack[t], Busy(t), t # 0)'
  <2>1. Placed(stack[t], Busy(t), t # 0) /\ stack[t] \in Seq(Frame)
    BY Parts
  <2>2. CASE Running(t)
    <3>1. (Busy(t)' <=> Busy(t)) /\ stack' = stack
      BY <2>2
    <3>2. QED
      BY <2>1, <3>1, Zenon DEF Placed
  <2>3. CASE ~Running(t)
    <3>1. DOMAIN stack[t] = {} /\ stack' = stack
      BY <2>1, <2>3 DEF Running
    <3>2. QED
      BY <3>1, Zenon DEF Placed
  <2>4. QED
    BY <2>2, <2>3
<1>2. QED
  BY <1>1, ThreadStep, Parts

(* A step that replaces the innermost frame: the call depth is as the      *)
(* frame enters or leaves the body of a function.                          *)
LEMMA TopStep ==
  ASSUME IInv, NEW t \in Threads, Running(t), NEW f \in Frame, SetTop(t, f),
         f.step = Inner(t).step, f.loose = Inner(t).loose,
         f.loose => f.phase \in {"before", "block", "after"},
         job = Idle \/ job.th = t, job' \in Job, job' = Idle \/ job'.th = t,
         f.phase = "block" <=> Busy(t)', Context', 
         \/ callDepth' = callDepth
            /\ (Calls(f.step) => (f.phase = "block" <=> Inner(t).phase = "block"))
         \/ callDepth' = callDepth + 1 /\ callDepth < MaxCallDepth
            /\ Calls(f.step) /\ f.phase = "block" /\ Inner(t).phase # "block"
         \/ callDepth' = callDepth - 1
            /\ Calls(f.step) /\ f.phase # "block" /\ Inner(t).phase = "block"
  PROVE  IInv'
<1> DEFINE s == stack[t]
           n == [s EXCEPT ![Len(s)] = f]
<1>1. /\ s \in Seq(Frame) /\ s # <<>> /\ Len(s) \in Nat \ {0}
      /\ Inner(t) = s[Len(s)] /\ stack \in [Threads -> Seq(Frame)]
  BY InnerIs, Parts
<1>2. /\ n \in Seq(Frame) /\ n # <<>> /\ Len(n) = Len(s) /\ n[Len(s)] = f
      /\ \A d \in 1 .. Len(s) - 1 : n[d] = s[d]
  BY <1>1, TopReplaced
<1> HIDE DEF n
<1>3. stack' = [stack EXCEPT ![t] = n]
  BY DEF SetTop, n
<1>4. /\ stack' \in [Threads -> Seq(Frame)] /\ stack'[t] = n
      /\ \A o \in Threads \ {t} : stack'[o] = stack[o]
  BY <1>1, <1>2, <1>3
<1>5. Placed(stack[t], Busy(t), t # 0)'
  <2>1. Placed(s, Busy(t), t # 0)
    BY Parts
  <2>2. ASSUME NEW d \in 1 .. Len(s) - 1
        PROVE  (n[d].phase = "block" <=> d < Len(n) \/ Busy(t)') /\ (n[d].loose <=> d = 1 /\ t # 0)
               /\ (n[d].loose => n[d].phase \in {"before", "block", "after"})
    <3>1. n[d] = s[d] /\ d \in DOMAIN s /\ d < Len(s) /\ d < Len(n)
      BY <1>1, <1>2
    <3>2. QED
      BY <2>1, <3>1, Zenon DEF Placed
  <2>3. LET d == Len(s)
        IN (n[d].phase = "block" <=> d < Len(n) \/ Busy(t)') /\ (n[d].loose <=> d = 1 /\ t # 0)
           /\ (n[d].loose => n[d].phase \in {"before", "block", "after"})
    <3>1. Len(s) \in DOMAIN s /\ ~(Len(s) < Len(n))
      BY <1>1, <1>2
    <3>2. QED
      BY <1>1, <1>2, <2>1, <3>1, Zenon DEF Placed
  <2>4. \A d \in DOMAIN n : d \in 1 .. Len(s) - 1 \/ d = Len(s)
    BY <1>1, <1>2
  <2>5. QED
    BY <1>4, <2>2, <2>3, <2>4, Zenon DEF Placed
<1>6. JobFits'
  BY <1>2, <1>4 DEF JobFits, Running, Doing, Idle
<1>7. callDepth' \in 0 .. MaxCallDepth
      /\ IsFiniteSet(Functions(stack')) /\ callDepth' = Cardinality(Functions(stack'))
  <2>a. /\ callDepth \in 0 .. MaxCallDepth /\ IsFiniteSet(Functions(stack))
        /\ callDepth = Cardinality(Functions(stack))
    BY Parts
  <2>1. CASE callDepth' = callDepth
             /\ (Calls(f.step) => (f.phase = "block" <=> Inner(t).phase = "block"))
    <3>1. FunctionsOf(n) = FunctionsOf(s)
      BY <1>1, <1>2, <2>1, FunctionsAgree
    <3>2. Functions(stack') = Functions(stack)
      BY <1>4, <3>1, CountKept
    <3>3. QED
      BY <2>a, <2>1, <3>2
  <2>2. CASE callDepth' = callDepth + 1 /\ callDepth < MaxCallDepth
             /\ Calls(f.step) /\ f.phase = "block" /\ Inner(t).phase # "block"
    <3>1. FunctionsOf(n) = FunctionsOf(s) \cup {Len(s)} /\ Len(s) \notin FunctionsOf(s)
      BY <1>1, <1>2, <2>2, FunctionEntered
    <3>2. /\ FunctionsOf(stack'[t]) = FunctionsOf(stack[t]) \cup {Len(s)}
          /\ Len(s) \notin FunctionsOf(stack[t])
          /\ \A o \in Threads \ {t} : FunctionsOf(stack'[o]) = FunctionsOf(stack[o])
      BY <1>4, <3>1
    <3>3. IsFiniteSet(Functions(stack'))
          /\ Cardinality(Functions(stack')) = Cardinality(Functions(stack)) + 1
      BY <2>a, <3>2, CountMore
    <3>4. QED
      BY <2>a, <2>2, <3>3
  <2>3. CASE callDepth' = callDepth - 1
             /\ Calls(f.step) /\ f.phase # "block" /\ Inner(t).phase = "block"
    <3>1. FunctionsOf(n) = FunctionsOf(s) \ {Len(s)} /\ Len(s) \in FunctionsOf(s)
      BY <1>1, <1>2, <2>3, FunctionLeft
    <3>2. /\ FunctionsOf(stack'[t]) = FunctionsOf(stack[t]) \ {Len(s)}
          /\ Len(s) \in FunctionsOf(stack[t])
          /\ \A o \in Threads \ {t} : FunctionsOf(stack'[o]) = FunctionsOf(stack[o])
      BY <1>4, <3>1
    <3>3. IsFiniteSet(Functions(stack'))
          /\ Cardinality(Functions(stack')) = Cardinality(Functions(stack)) - 1
          /\ Cardinality(Functions(stack)) - 1 \in Nat
      BY <2>a, <3>2, CountLess
    <3>4. QED
      BY <2>a, <2>3, <3>3
  <2>4. QED
    BY <2>1, <2>2, <2>3
<1>8. QED
  BY <1>4, <1>5, <1>6, <1>7, ThreadStep

(* A frame that ended is taken off: the block below is told.               *)
LEMMA PopStep ==
  ASSUME IInv, NEW t \in Threads, Running(t), Pop(t), Inner(t).phase # "block",
         job = Idle \/ job.th = t, job' \in Job,
         \/ job' = Idle /\ Inner(t).loose
         \/ ~Inner(t).loose /\ Doing("outcome")' /\ job'.th = t,
         Context', UNCHANGED callDepth
  PROVE  IInv'
<1> DEFINE s == stack[t]
           n == SubSeq(s, 1, Len(s) - 1)
<1>1. /\ s \in Seq(Frame) /\ s # <<>> /\ Len(s) \in Nat \ {0}
      /\ Inner(t) = s[Len(s)] /\ stack \in [Threads -> Seq(Frame)]
  BY InnerIs, Parts
<1>2. /\ n \in Seq(Frame) /\ Len(n) = Len(s) - 1
      /\ \A d \in 1 .. Len(s) - 1 : n[d] = s[d]
  <2>1. Len(s) \in 1 .. Len(s)
    BY <1>1
  <2>2. QED
    BY <1>1, <2>1, FramesKept
<1>3. stack' = [stack EXCEPT ![t] = n]
  BY DEF Pop
<1> HIDE DEF n
<1>4. /\ stack' \in [Threads -> Seq(Frame)] /\ stack'[t] = n
      /\ \A o \in Threads \ {t} : stack'[o] = stack[o]
  BY <1>1, <1>2, <1>3
<1>5. Placed(s, Busy(t), t # 0)
  BY Parts
<1>6. Inner(t).loose <=> Len(s) = 1 /\ t # 0
  <2>1. Len(s) \in DOMAIN s
    BY <1>1
  <2>2. QED
    BY <1>1, <1>5, <2>1, Zenon DEF Placed
<1>7. Placed(stack[t], Busy(t), t # 0)'
  <2>1. CASE n = <<>>
    <3>1. DOMAIN stack'[t] = {}
      BY <1>4, <2>1
    <3>2. QED
      BY <3>1, Zenon DEF Placed
  <2>2. CASE n # <<>>
    <3>1. ~Inner(t).loose /\ Doing("outcome")' /\ job'.th = t
      BY <1>1, <1>2, <1>6, <2>2
    <3>2. Busy(t)'
      BY <3>1 DEF Busy
    <3>3. ASSUME NEW d \in DOMAIN n
          PROVE  n[d].phase = "block" /\ (n[d].loose <=> d = 1 /\ t # 0)
                 /\ (n[d].loose => n[d].phase \in {"before", "block", "after"})
      <4>1. d \in DOMAIN s /\ d < Len(s) /\ n[d] = s[d]
        BY <1>1, <1>2
      <4>2. QED
        BY <1>5, <4>1, Zenon DEF Placed
    <3>4. QED
      BY <1>4, <3>2, <3>3, Zenon DEF Placed
  <2>3. QED
    BY <2>1, <2>2
<1>8. JobFits'
  <2>1. CASE job' = Idle
    BY <2>1 DEF JobFits, Doing
  <2>2. CASE ~Inner(t).loose /\ Doing("outcome")' /\ job'.th = t
    <3>1. t = 0 \/ n # <<>>
      BY <1>1, <1>2, <1>6, <2>2
    <3>2. ~Doing("attempt")' /\ ~Doing("end")'
      BY <2>2 DEF Doing
    <3>3. QED
      BY <1>4, <2>2, <3>1, <3>2 DEF JobFits, Running
  <2>3. QED
    BY <2>1, <2>2
<1>9. /\ callDepth' \in 0 .. MaxCallDepth
      /\ IsFiniteSet(Functions(stack')) /\ callDepth' = Cardinality(Functions(stack'))
  <2>1. FunctionsOf(n) = FunctionsOf(s)
    BY <1>1, <1>2, FunctionsPopped
  <2>2. Functions(stack') = Functions(stack)
    BY <1>4, <2>1, CountKept
  <2>3. QED
    BY <2>2, Parts
<1>10. job' = Idle \/ job'.th = t
  OBVIOUS
<1>11. QED
  BY <1>4, <1>7, <1>8, <1>9, <1>10, ThreadStep

-----------------------------------------------------------------------------
LEMMA ContextKept ==
  ASSUME Context, CtxUnchanged, pendingJump' \in Steps \cup {None}, param' \in Steps \cup {None}
  PROVE  Context'
BY Zenon DEF Context, CtxUnchanged

(* What the job says of the thread it runs for.                            *)
LEMMA JobRuns ==
  ASSUME IInv
  PROVE  /\ Doing("attempt") \/ Doing("end") =>
              job.th \in Threads /\ Running(job.th) /\ Inner(job.th).phase # "block"
         /\ Doing("begin") \/ Doing("outcome") =>
              job.th \in Threads /\ (job.th = 0 \/ Running(job.th))
         /\ Doing("outcome") /\ Running(job.th) => Inner(job.th).phase = "block"
         /\ job = Idle => \A t \in Threads : Running(t) => Inner(t).phase # "block"
         /\ Doing("begin") \/ Doing("attempt") \/ Doing("end") \/ Doing("outcome") => job # Idle
<1>1. job # Idle => job.th \in Threads
  BY JobKinds, Parts
<1>2. Doing("attempt") \/ Doing("end") => ~Busy(job.th)
  BY DEF Busy, Doing
<1>3. job = Idle => \A t \in Threads : ~Busy(t)
  BY DEF Busy, Doing
<1>4. Doing("outcome") => Busy(job.th)
  BY DEF Busy
<1>5. Doing("begin") \/ Doing("attempt") \/ Doing("end") \/ Doing("outcome") => job # Idle
  BY DEF Doing
<1>6. JobFits
  BY Parts
<1>7. \A t \in Threads : Running(t) => (Inner(t).phase = "block" <=> Busy(t))
  BY InnerIs
<1>8. QED
  BY <1>1, <1>2, <1>3, <1>4, <1>5, <1>6, <1>7 DEF JobFits

(* What each kind of job is.                                               *)
LEMMA IdleJob ==
  ASSUME job' = Idle
  PROVE  /\ job' \in Job /\ ~Doing("begin")' /\ ~Doing("attempt")' /\ ~Doing("end")'
         /\ ~Doing("outcome")' /\ \A t : ~Busy(t)'
BY JobIs DEF Doing, Busy

LEMMA EndJob ==
  ASSUME NEW t \in Threads, NEW ok \in BOOLEAN, EndBody(t, ok)
  PROVE  /\ job' \in Job /\ job'.th = t /\ job' # Idle /\ ~Doing("begin")' /\ ~Doing("attempt")'
         /\ Doing("end")' /\ ~Doing("outcome")' /\ \A o : ~Busy(o)'
<1> DEFINE j == [do |-> "end", th |-> t, ok |-> ok]
<1>a. j \in Job /\ j # Idle /\ j.do = "end" /\ j.th = t
  <2>1. j \in [do : {"end"}, th : Threads, ok : BOOLEAN]
    BY Zenon
  <2>2. j.do # Idle.do /\ j.do = "end" /\ j.th = t
    BY DEF Idle
  <2>3. QED
    BY <2>1, <2>2, Zenon DEF Job
<1>b. job' = j
  BY DEF EndBody
<1> HIDE DEF j
<1>1. job' \in Job /\ job' # Idle /\ job'.do = "end" /\ job'.th = t
  BY <1>a, <1>b, Zenon
<1>2. QED
  BY <1>1 DEF Doing, Busy

LEMMA OutcomeJob ==
  ASSUME NEW t \in Threads, NEW s \in Steps, NEW v \in {"continue", "abort", "jump"},
         NEW b \in Steps \cup {None}, Outcome(t, s, v, b)
  PROVE  /\ job' \in Job /\ job'.th = t /\ job' # Idle /\ ~Doing("begin")' /\ ~Doing("attempt")'
         /\ ~Doing("end")' /\ Doing("outcome")' /\ Busy(t)'
         /\ job'.step = s /\ job'.val = v /\ job'.by = b
<1>1. /\ job' \in Job /\ job' # Idle /\ job'.do = "outcome" /\ job'.th = t
      /\ job'.step = s /\ job'.val = v /\ job'.by = b
  BY JobIs DEF Outcome
<1>2. QED
  BY <1>1 DEF Doing, Busy

LEMMA BeginJob ==
  ASSUME NEW t \in Threads, NEW s \in Steps, job' = [do |-> "begin", th |-> t, step |-> s]
  PROVE  /\ job' \in Job /\ job'.th = t /\ job' # Idle /\ Doing("begin")' /\ ~Doing("attempt")'
         /\ ~Doing("end")' /\ ~Doing("outcome")' /\ Busy(t)'
<1>1. job' \in Job /\ job' # Idle /\ job'.do = "begin" /\ job'.th = t
  BY JobIs
<1>2. QED
  BY <1>1 DEF Doing, Busy

LEMMA AttemptJob ==
  ASSUME NEW t \in Threads, job' = [do |-> "attempt", th |-> t]
  PROVE  /\ job' \in Job /\ job'.th = t /\ job' # Idle /\ ~Doing("begin")' /\ Doing("attempt")'
         /\ ~Doing("end")' /\ ~Doing("outcome")' /\ \A o : ~Busy(o)'
<1>1. job' \in Job /\ job' # Idle /\ job'.do = "attempt" /\ job'.th = t
  BY JobIs
<1>2. QED
  BY <1>1 DEF Doing, Busy

(* validateStep, when the step's effect is done.                           *)
LEMMA ValidateStep ==
  ASSUME IInv, NEW t \in Threads, Running(t), job = Idle \/ job.th = t,
         NEW f \in Frame, f.step = Inner(t).step, f.loose = Inner(t).loose, Validate(t, f),
         Context',
         \/ callDepth' = callDepth /\ (Inner(t).phase = "block" => ~Calls(f.step))
         \/ callDepth' = callDepth - 1 /\ Inner(t).phase = "block" /\ Calls(f.step)
  PROVE  IInv'
<1> DEFINE g == [f EXCEPT !.phase = "after"]
<1>1. g \in Frame /\ g.step = f.step /\ g.loose = f.loose /\ g.phase = "after"
  BY Zenon DEF Frame
<1>2. SetTop(t, g)
  BY DEF Validate
<1>3. job' = Idle \/ EndBody(t, TRUE)
  BY DEF Validate
<1>4. job' \in Job /\ (job' = Idle \/ job'.th = t) /\ ~Busy(t)'
  BY <1>3, IdleJob, EndJob
<1>5. (g.phase = "block" <=> Busy(t)') /\ g.phase # "block"
  BY <1>1, <1>4
<1> HIDE DEF g
<1>6. QED
  BY <1>1, <1>2, <1>4, <1>5, TopStep

(* invokeFunction: refused at the limit, and otherwise the parameter and   *)
(* the depth are set for the body.                                         *)
LEMMA InvokeStep ==
  ASSUME IInv, NEW t \in Threads, Running(t), job = Idle \/ job.th = t,
         Inner(t).phase # "block", Calls(Inner(t).step), Block[Inner(t).step] # <<>>,
         InvokeFunction(t, Inner(t)), UNCHANGED pendingJump, CtxUnchanged
  PROVE  IInv'
<1> DEFINE s == Inner(t).step
<1>0. /\ Inner(t) \in Frame /\ s \in Steps /\ (Inner(t).phase = "block" <=> Busy(t))
      /\ Context /\ callDepth \in 0 .. MaxCallDepth
      /\ pendingJump \in Steps \cup {None} /\ param \in Steps \cup {None}
  BY InnerIs, Parts DEF Frame, Context
<1>1. CASE DepthExceeded
  <2>1. EndBody(t, FALSE) /\ UNCHANGED <<stack, callDepth, param>>
    BY <1>1 DEF InvokeFunction, FnUnchanged
  <2>2. job' \in Job /\ job'.th = t /\ ~Busy(t)' /\ Doing("end")'
        /\ ~Doing("attempt")' /\ ~Doing("begin")' /\ ~Doing("outcome")'
    BY <2>1, EndJob
  <2>3. Context'
    BY <1>0, <2>1, ContextKept
  <2>4. Running(t)'
    BY <2>1 DEF Running
  <2>5. JobFits'
    BY <2>2, <2>4 DEF JobFits
  <2>6. QED
    BY <1>0, <2>1, <2>2, <2>3, <2>5, JobStep
<1>2. CASE ~DepthExceeded
  <2> DEFINE g == [Inner(t) EXCEPT !.phase = "block", !.k = 1, !.saved = param]
  <2>1. g \in Frame /\ g.step = s /\ g.loose = Inner(t).loose /\ g.phase = "block" /\ g.k = 1
    BY <1>0 DEF Frame
  <2>2. /\ callDepth' = callDepth + 1 /\ param' = s /\ callDepth < MaxCallDepth
        /\ RunBlock(t, g)
    BY <1>0, <1>2 DEF InvokeFunction, DepthExceeded
  <2>3. SetTop(t, g) /\ job' = [do |-> "begin", th |-> t, step |-> Block[s][1]]
    BY <2>1, <2>2 DEF RunBlock
  <2>4. Block[s][1] \in Steps
    BY <1>0
  <2>5. job' \in Job /\ job'.th = t /\ Busy(t)'
    BY <2>3, <2>4, BeginJob
  <2>6. Context'
    BY <1>0, <2>2, ContextKept
  <2>7. g.phase = "block" <=> Busy(t)'
    BY <2>1, <2>5
  <2> HIDE DEF g
  <2>8. QED
    BY <1>0, <2>1, <2>2, <2>3, <2>5, <2>6, <2>7, TopStep
<1>3. QED
  BY <1>1, <1>2

LEMMA BeginStep == IInv /\ Begin => IInv'
<1> SUFFICES ASSUME IInv, Begin, NEW t, t = job.th PROVE IInv'
  OBVIOUS
<1> DEFINE s == stack[t]
           f == [step |-> job.step, phase |-> "before", k |-> 0, iter |-> 0, tries |-> 0,
                 saved |-> None, loose |-> FALSE]
           n == Append(s, f)
<1>1. /\ t \in Threads /\ (t = 0 \/ Running(t)) /\ job.step \in Steps /\ Doing("begin")
      /\ stack \in [Threads -> Seq(Frame)] /\ s \in Seq(Frame) /\ Busy(t)
  BY JobRuns, JobKinds, Parts DEF Begin, Busy
<1>2. f \in Frame /\ f.phase # "block" /\ ~f.loose
  <2>1. 0 \in Nat /\ 0 \in 0 .. MaxIterations /\ 0 \in 0 .. MaxRetries
    OBVIOUS
  <2>2. QED
    BY <1>1, <2>1, Zenon DEF Frame
<1>3. stack' = [stack EXCEPT ![t] = n]
  BY DEF Begin
<1> HIDE DEF f
<1>4. /\ Len(s) \in Nat
      /\ n \in Seq(Frame) /\ n # <<>> /\ Len(n) = Len(s) + 1 /\ n[Len(s) + 1] = f
      /\ \A d \in 1 .. Len(s) : n[d] = s[d]
  BY <1>1, <1>2, FramePushed
<1> HIDE DEF n
<1>5. /\ stack' \in [Threads -> Seq(Frame)] /\ stack'[t] = n
      /\ \A o \in Threads \ {t} : stack'[o] = stack[o]
  BY <1>1, <1>3, <1>4
<1>6. /\ job' = [do |-> "attempt", th |-> t] /\ job' \in Job /\ job'.th = t /\ ~Busy(t)'
      /\ ~Doing("begin")' /\ ~Doing("outcome")' /\ Doing("attempt")'
  BY <1>1, AttemptJob DEF Begin
<1>7. Placed(stack[t], Busy(t), t # 0)'
  <2>1. Placed(s, Busy(t), t # 0)
    BY <1>1, Parts
  <2>2. ASSUME NEW d \in 1 .. Len(s)
        PROVE  n[d].phase = "block" /\ d < Len(n) /\ (n[d].loose <=> d = 1 /\ t # 0)
               /\ (n[d].loose => n[d].phase \in {"before", "block", "after"})
    <3>1. n[d] = s[d] /\ d \in DOMAIN s /\ d < Len(n)
      BY <1>1, <1>4
    <3>2. QED
      BY <1>1, <2>1, <3>1, Zenon DEF Placed
  <2>3. ~(Len(s) + 1 < Len(n)) /\ (Len(s) + 1 = 1 => t = 0)
    BY <1>1, <1>4 DEF Running
  <2>4. \A d \in DOMAIN n : d \in 1 .. Len(s) \/ d = Len(s) + 1
    BY <1>4
  <2>5. job'.th = t
    BY <1>6
  <2>6. ASSUME NEW d \in DOMAIN n
        PROVE  (n[d].phase = "block" <=> d < Len(n) \/ Busy(t)') /\ (n[d].loose <=> d = 1 /\ t # 0)
               /\ (n[d].loose => n[d].phase \in {"before", "block", "after"})
    BY <1>2, <1>4, <1>6, <2>2, <2>3, <2>4, Zenon
  <2>7. \A d \in DOMAIN n :
          (n[d].phase = "block" <=> d < Len(n) \/ Busy(t)') /\ (n[d].loose <=> d = 1 /\ t # 0)
          /\ (n[d].loose => n[d].phase \in {"before", "block", "after"})
    BY <2>6
  <2>8. QED
    BY <1>5, <2>5, <2>7, Zenon DEF Placed
<1>8. JobFits'
  BY <1>4, <1>5, <1>6 DEF JobFits, Running
<1>9. callDepth' \in 0 .. MaxCallDepth
      /\ IsFiniteSet(Functions(stack')) /\ callDepth' = Cardinality(Functions(stack'))
  <2>1. FunctionsOf(n) = FunctionsOf(s)
    BY <1>1, <1>2, <1>4, FunctionsPushed
  <2>2. Functions(stack') = Functions(stack)
    BY <1>5, <2>1, CountKept
  <2>3. callDepth' = callDepth
    BY DEF Begin, FnUnchanged
  <2>4. QED
    BY <2>2, <2>3, Parts
<1>10. Context'
  <2>1. Context /\ param \in Steps \cup {None}
    BY Parts DEF Context
  <2>2. QED
    BY <2>1, ContextKept DEF Begin, FnUnchanged
<1>11. QED
  BY <1>1, <1>5, <1>6, <1>7, <1>8, <1>9, <1>10, ThreadStep

-----------------------------------------------------------------------------
(* What a frame says of its step.                                          *)
LEMMA StepOfFrame ==
  ASSUME NEW f \in Frame
  PROVE  /\ f.step \in Steps /\ f.saved \in Steps \cup {None}
         /\ Kind[f.step] \in {"call", "loop"} => Block[f.step] # <<>>
         /\ Kind[f.step] \in {"leaf", "goto", "loop"} => ~Calls(f.step)
         /\ Kind[f.step] \in {"call", "condition"} => Calls(f.step)
BY DEF Frame, Calls

LEMMA AttemptStep == IInv /\ Attempt => IInv'
<1> SUFFICES ASSUME IInv, Attempt, NEW t, t = job.th PROVE IInv'
  OBVIOUS
<1> DEFINE f == Inner(t)
           s == f.step
<1>1. t \in Threads /\ Running(t) /\ f.phase # "block" /\ f \in Frame /\ job # Idle
  BY JobRuns, InnerIs DEF Attempt
<1>2. /\ s \in Steps /\ Context /\ param \in Steps \cup {None}
      /\ pendingJump \in Steps \cup {None} /\ CtxUnchanged
  BY <1>1, StepOfFrame, Parts DEF Context, Attempt
<1>3. CASE Kind[s] = "goto" /\ pendingJump' = s /\ FnUnchanged /\ Validate(t, f)
  <2>1. Context' /\ callDepth' = callDepth
    BY <1>2, <1>3, ContextKept DEF FnUnchanged
  <2>2. QED
    BY <1>1, <1>3, <2>1, ValidateStep
<1>4. CASE Kind[s] = "call" /\ UNCHANGED pendingJump /\ InvokeFunction(t, f)
  BY <1>1, <1>2, <1>4, StepOfFrame, InvokeStep
<1>5. CASE /\ SetTop(t, [f EXCEPT !.phase = "before", !.iter = 0]) /\ job' = Idle
           /\ UNCHANGED pendingJump /\ FnUnchanged
  <2> DEFINE g == [f EXCEPT !.phase = "before", !.iter = 0]
  <2>1. g \in Frame /\ g.step = s /\ g.loose = f.loose /\ g.phase = "before"
    <3>1. 0 \in 0 .. MaxIterations
      OBVIOUS
    <3>2. QED
      BY <1>1, <3>1, Zenon DEF Frame
  <2>2. Context' /\ callDepth' = callDepth
    BY <1>2, <1>5, ContextKept DEF FnUnchanged
  <2>3. job' \in Job /\ ~Busy(t)'
    BY <1>5, IdleJob
  <2>4. (g.phase = "block" <=> Busy(t)') /\ g.phase # "block"
    BY <2>1, <2>3
  <2>5. SetTop(t, g)
    BY <1>5
  <2>6. job' = Idle
    BY <1>5
  <2> HIDE DEF g
  <2>7. QED
    BY <1>1, <2>1, <2>2, <2>3, <2>4, <2>5, <2>6, TopStep
<1>6. QED
  BY <1>3, <1>4, <1>5 DEF Attempt

LEMMA AnsweredStep == \A t \in Threads : IInv /\ Answered(t) => IInv'
<1> SUFFICES ASSUME IInv, NEW t \in Threads, Answered(t) PROVE IInv'
  OBVIOUS
<1> DEFINE f == Inner(t)
           s == f.step
<1>1. Running(t) /\ f.phase # "block" /\ f \in Frame /\ job = Idle
  BY InnerIs DEF Answered
<1>2. /\ s \in Steps /\ Context /\ param \in Steps \cup {None}
      /\ pendingJump \in Steps \cup {None} /\ CtxUnchanged
  BY <1>1, StepOfFrame, Parts DEF Context, Answered
<1>3. CASE Validate(t, f) /\ pendingJump' \in {s, pendingJump} /\ FnUnchanged
  <2>1. Context' /\ callDepth' = callDepth
    BY <1>2, <1>3, ContextKept DEF FnUnchanged
  <2>2. QED
    BY <1>1, <1>3, <2>1, ValidateStep
<1>4. CASE /\ Kind[s] = "condition" /\ Block[s] # <<>>
           /\ UNCHANGED pendingJump /\ InvokeFunction(t, f)
  BY <1>1, <1>2, <1>4, StepOfFrame, InvokeStep
<1>5. CASE /\ Kind[s] = "loop" /\ RunBlock(t, [f EXCEPT !.phase = "block", !.k = 1])
           /\ UNCHANGED pendingJump /\ FnUnchanged
  <2> DEFINE g == [f EXCEPT !.phase = "block", !.k = 1]
  <2>1. g \in Frame /\ g.step = s /\ g.loose = f.loose /\ g.phase = "block" /\ g.k = 1
    BY <1>1, Zenon DEF Frame
  <2>2. Context' /\ callDepth' = callDepth
    BY <1>2, <1>5, ContextKept DEF FnUnchanged
  <2>3. Block[s][1] \in Steps /\ ~Calls(s)
    BY <1>1, <1>2, <1>5, StepOfFrame
  <2>4. SetTop(t, g) /\ job' = [do |-> "begin", th |-> t, step |-> Block[s][1]]
    BY <1>5, <2>1 DEF RunBlock
  <2>5. job' \in Job /\ job'.th = t /\ Busy(t)'
    BY <2>3, <2>4, BeginJob
  <2>6. g.phase = "block" <=> Busy(t)'
    BY <2>1, <2>5
  <2> HIDE DEF g
  <2>7. QED
    BY <1>1, <2>1, <2>2, <2>3, <2>4, <2>5, <2>6, TopStep
<1>6. QED
  BY <1>3, <1>4, <1>5 DEF Answered

(* The steps that leave the frames where they are.                         *)
LEMMA QuietSteps ==
  /\ \A t \in Threads : IInv /\ (Failed(t) \/ Valid(t) \/ BackoffOver(t)) => IInv'
  /\ IInv /\ (StepOver \/ \E s \in Steps : Start(s)) => IInv'
<1>0. 0 \in Threads
  BY DEF Threads
<1>1. ASSUME IInv, NEW t \in Threads, Failed(t) \/ Valid(t) \/ BackoffOver(t) PROVE IInv'
  <2>1. /\ job = Idle /\ Running(t) /\ UNCHANGED <<stack, callDepth, pendingJump, param>>
        /\ CtxUnchanged
    BY <1>1 DEF Failed, Valid, BackoffOver, FnUnchanged
  <2>2. EndBody(t, TRUE) \/ EndBody(t, FALSE) \/ job' = [do |-> "attempt", th |-> t]
    BY <1>1 DEF Failed, Valid, BackoffOver
  <2>3. /\ job' \in Job /\ job'.th = t /\ ~Busy(t)' /\ ~Doing("begin")' /\ ~Doing("outcome")'
    BY <2>2, EndJob, AttemptJob
  <2>4. Context'
    BY <1>1, <2>1, Parts, ContextKept DEF Context
  <2>5. Running(t)' /\ ~Busy(t)
    BY <2>1 DEF Running, Busy, Doing
  <2>6. JobFits'
    BY <2>3, <2>5 DEF JobFits
  <2>7. QED
    BY <1>1, <2>1, <2>3, <2>4, <2>5, <2>6, JobStep
<1>2. ASSUME IInv, StepOver PROVE IInv'
  <2> DEFINE t == job.th
  <2>1. t \in Threads /\ ~Running(t) /\ job' = Idle /\ UNCHANGED <<stack, callDepth>>
    BY <1>2, JobRuns DEF StepOver, FnUnchanged
  <2>2. Context'
    <3>1. Context
      BY <1>2, Parts
    <3>2. over' \in BOOLEAN
      BY <1>2, Zenon DEF StepOver
    <3>3. QED
      BY <1>2, <3>1, <3>2, Zenon DEF StepOver, FnUnchanged, Context
  <2>3. job' \in Job /\ ~Busy(t)' /\ JobFits'
    BY <2>1, IdleJob DEF JobFits
  <2>4. QED
    BY <1>2, <2>1, <2>2, <2>3, JobStep
<1>3. ASSUME IInv, NEW s \in Steps, Start(s) PROVE IInv'
  <2>1. /\ job = Idle /\ ~Running(0) /\ UNCHANGED <<stack, callDepth>>
        /\ job' = [do |-> "begin", th |-> 0, step |-> s]
    BY <1>3 DEF Start, FnUnchanged
  <2>2. Context'
    <3>1. Context /\ runs' \in 0 .. MaxRuns
      BY <1>3, Parts DEF Start, Context
    <3>2. QED
      BY <1>3, <3>1, Zenon DEF Start, FnUnchanged, Context
  <2>3. job' \in Job /\ job'.th = 0 /\ ~Doing("attempt")' /\ ~Doing("end")'
    BY <1>0, <2>1, BeginJob
  <2>4. JobFits'
    BY <2>3 DEF JobFits
  <2>5. QED
    BY <1>0, <1>3, <2>1, <2>2, <2>3, <2>4, JobStep
<1>4. QED
  BY <1>1, <1>2, <1>3

-----------------------------------------------------------------------------
LEMMA StatusSet ==
  ASSUME Context, NEW s \in Steps, NEW v \in {"none", "success", "skipped", "failed"},
         status' = [status EXCEPT ![s] = v], pendingJump' \in Steps \cup {None},
         errors' \in SUBSET Steps, UNCHANGED <<timed, param, runs, over>>
  PROVE  Context'
<1>1. status' \in [Steps -> {"none", "success", "skipped", "failed"}]
  BY DEF Context
<1>2. QED
  BY <1>1, Zenon DEF Context

(* 'continue' or 'jump'.                                                   *)
LEMMA ContinueOrJumpIs ==
  ASSUME IInv, NEW t \in Threads, NEW s \in Steps, ContinueOrJump(t, s)
  PROVE  /\ job' \in Job /\ job'.th = t /\ Doing("outcome")' /\ Busy(t)' /\ job' # Idle
         /\ job'.step = s /\ job'.val \in {"continue", "jump"} /\ job'.by = pendingJump
         /\ pendingJump = None => job'.val = "continue"
         /\ pendingJump' = None
<1> DEFINE v == IF pendingJump = None THEN "continue" ELSE "jump"
<1>1. v \in {"continue", "abort", "jump"} /\ v \in {"continue", "jump"}
      /\ (pendingJump = None => v = "continue")
  OBVIOUS
<1>2. pendingJump \in Steps \cup {None}
  BY Parts DEF Context
<1>3. Outcome(t, s, v, pendingJump) /\ pendingJump' = None
  BY DEF ContinueOrJump
<1> HIDE DEF v
<1>4. QED
  BY <1>1, <1>2, <1>3, OutcomeJob

(* The steps that take the innermost frame off.                            *)
LEMMA EndedSteps == IInv /\ (BodyIgnored \/ Succeeds \/ Skip(Inner(job.th))) => IInv'
<1> SUFFICES ASSUME IInv, NEW t, t = job.th, BodyIgnored \/ Succeeds \/ Skip(Inner(t)) PROVE IInv'
  OBVIOUS
<1> DEFINE f == Inner(t)
           s == f.step
<1>1. t \in Threads /\ Running(t) /\ f.phase # "block" /\ f \in Frame /\ job # Idle
  BY JobRuns, InnerIs DEF BodyIgnored, Succeeds, Skip, Fails
<1>2. s \in Steps /\ Context /\ param \in Steps \cup {None} /\ errors \subseteq Steps
      /\ pendingJump \in Steps \cup {None}
  BY <1>1, StepOfFrame, Parts DEF Context
<1>3. CASE BodyIgnored
  <2>1. job' = Idle /\ f.loose /\ Pop(t) /\ UNCHANGED <<callDepth, param, pendingJump>>
        /\ CtxUnchanged
    BY <1>3 DEF BodyIgnored, FnUnchanged
  <2>2. Context'
    BY <1>2, <2>1, ContextKept
  <2>3. job' \in Job
    BY <2>1, IdleJob
  <2>4. job' = Idle /\ Inner(t).loose
    BY <2>1
  <2>5. QED
    BY <1>1, <2>1, <2>2, <2>3, <2>4, PopStep
<1>4. CASE Succeeds \/ Skip(f)
  <2>1. ~f.loose /\ Pop(t) /\ ContinueOrJump(t, s) /\ UNCHANGED <<callDepth, param>>
    BY <1>4 DEF Succeeds, Skip, Fails, FnUnchanged
  <2>2. job' \in Job /\ job'.th = t /\ Doing("outcome")' /\ pendingJump' = None
    BY <1>1, <1>2, <2>1, ContinueOrJumpIs
  <2>3. Context'
    <3>1. PICK v \in {"success", "skipped"} : status' = [status EXCEPT ![s] = v]
      BY <1>4 DEF Succeeds, Skip
    <3>2. errors' \in SUBSET Steps /\ UNCHANGED <<timed, runs, over>>
      BY <1>2, <1>4 DEF Succeeds, Skip
    <3>3. v \in {"none", "success", "skipped", "failed"}
      OBVIOUS
    <3>4. QED
      BY <1>2, <2>1, <2>2, <3>1, <3>2, <3>3, StatusSet
  <2>4. QED
    BY <1>1, <2>1, <2>2, <2>3, PopStep
<1>5. QED
  BY <1>3, <1>4

(* The last failure of a step: the run is told to stop.                    *)
LEMMA RecordFailureStep ==
  ASSUME IInv, NEW t \in Threads, Running(t), Inner(t).phase # "block", ~Inner(t).loose,
         job = Idle \/ job.th = t,
         RecordFailure(t, Inner(t).step), errors' \in SUBSET Steps,
         UNCHANGED <<timed, param, callDepth, runs, over>>
  PROVE  IInv'
<1> DEFINE s == Inner(t).step
<1>1. s \in Steps /\ Context
  BY InnerIs, StepOfFrame, Parts
<1>2. /\ Outcome(t, s, "abort", None) /\ Pop(t) /\ pendingJump' = None
      /\ status' = [status EXCEPT ![s] = "failed"]
  BY DEF RecordFailure
<1>3. job' \in Job /\ job'.th = t /\ Doing("outcome")'
  BY <1>1, <1>2, OutcomeJob
<1>4. Context'
  BY <1>1, <1>2, StatusSet
<1>5. QED
  BY <1>2, <1>3, <1>4, PopStep

LEMMA ShotTakenStep == \A t \in Threads : IInv /\ ShotTaken(t) => IInv'
<1> SUFFICES ASSUME IInv, NEW t \in Threads, ShotTaken(t) PROVE IInv'
  OBVIOUS
<1>1. /\ job = Idle /\ Running(t) /\ Inner(t).phase = "shot" /\ RecordFailure(t, Inner(t).step)
      /\ UNCHANGED <<timed, param, callDepth, errors, runs, over>>
  BY DEF ShotTaken, FnUnchanged
<1>2. ~Inner(t).loose
  <2>1. Placed(stack[t], Busy(t), t # 0)
    BY Parts
  <2>2. Inner(t).loose => Inner(t).phase \in {"before", "block", "after"}
    BY <1>1, <2>1, InnerIs, Zenon DEF Placed
  <2>3. QED
    BY <1>1, <2>2
<1>3. QED
  BY <1>1, <1>2, RecordFailureStep, Parts DEF Context

(* A failed attempt that is not the last, or that is followed by a         *)
(* screenshot.                                                             *)
LEMMA FailedSteps == IInv /\ (Retry(Inner(job.th)) \/ Abort(Inner(job.th))) => IInv'
<1> SUFFICES ASSUME IInv, NEW t, t = job.th, Retry(Inner(t)) \/ Abort(Inner(t)) PROVE IInv'
  OBVIOUS
<1> DEFINE f == Inner(t)
           s == f.step
<1>1. /\ t \in Threads /\ Running(t) /\ f.phase # "block" /\ f \in Frame /\ job # Idle
      /\ ~f.loose
  BY JobRuns, InnerIs DEF Retry, Abort, Fails
<1>2. s \in Steps /\ Context /\ param \in Steps \cup {None} /\ errors \subseteq Steps
      /\ pendingJump \in Steps \cup {None}
  BY <1>1, StepOfFrame, Parts DEF Context
<1>3. ASSUME NEW g \in Frame, g.step = s, g.loose = f.loose, g.phase # "block", SetTop(t, g),
             job' = Idle, errors' \in SUBSET Steps,
             UNCHANGED <<timed, pendingJump, param, callDepth, status, runs, over>>
      PROVE  IInv'
  <2>1. Context'
    BY <1>2, <1>3, Zenon DEF Context
  <2>2. job' \in Job /\ ~Busy(t)'
    BY <1>3, IdleJob
  <2>3. g.phase = "block" <=> Busy(t)'
    BY <1>3, <2>2
  <2>4. QED
    BY <1>1, <1>3, <2>1, <2>2, <2>3, TopStep
<1>4. CASE Retry(f)
  <2> DEFINE g == [f EXCEPT !.tries = @ + 1, !.phase = "backoff"]
  <2>1. g \in Frame /\ g.step = s /\ g.loose = f.loose /\ g.phase # "block"
    <3>1. f.tries + 1 \in 0 .. MaxRetries
      BY <1>1, <1>4 DEF Retry, Frame
    <3>2. QED
      BY <1>1, <3>1, Zenon DEF Frame
  <2>2. /\ SetTop(t, g) /\ job' = Idle
        /\ UNCHANGED <<timed, pendingJump, param, callDepth, status, errors, runs, over>>
    BY <1>4 DEF Retry, FnUnchanged, CtxUnchanged
  <2> HIDE DEF g
  <2>3. QED
    BY <1>2, <1>3, <2>1, <2>2
<1>5. CASE Abort(f)
  <2>1. errors' \in SUBSET Steps /\ UNCHANGED <<timed, param, callDepth, runs, over>>
    BY <1>2, <1>5 DEF Abort, FnUnchanged
  <2>2. CASE RecordFailure(t, s)
    BY <1>1, <2>1, <2>2, RecordFailureStep
  <2>3. CASE /\ SetTop(t, [f EXCEPT !.phase = "shot"]) /\ job' = Idle
             /\ UNCHANGED <<pendingJump, status>>
    <3> DEFINE g == [f EXCEPT !.phase = "shot"]
    <3>1. g \in Frame /\ g.step = s /\ g.loose = f.loose /\ g.phase # "block"
      BY <1>1, Zenon DEF Frame
    <3>2. SetTop(t, g) /\ job' = Idle /\ UNCHANGED <<pendingJump, status>>
      BY <2>3
    <3> HIDE DEF g
    <3>3. QED
      BY <1>3, <2>1, <3>1, <3>2
  <2>4. QED
    BY <1>5, <2>2, <2>3 DEF Abort
<1>6. QED
  BY <1>4, <1>5

-----------------------------------------------------------------------------
(* The steps of a block, one after the other, and its end.                 *)
LEMMA BlockSteps ==
  IInv /\ job # Idle /\ Running(job.th)
  /\ (\/ NextOfBlock(Inner(job.th)) \/ NextIteration(Inner(job.th))
      \/ BlockDone(Inner(job.th)) \/ BlockFails(Inner(job.th)))
  => IInv'
<1> SUFFICES ASSUME IInv, NEW t, t = job.th, Running(t),
                    \/ NextOfBlock(Inner(t)) \/ NextIteration(Inner(t))
                    \/ BlockDone(Inner(t)) \/ BlockFails(Inner(t))
             PROVE  IInv'
  OBVIOUS
<1> DEFINE f == Inner(t)
           s == f.step
<1>1. t \in Threads /\ Doing("outcome") /\ f.phase = "block" /\ f \in Frame
  BY JobRuns, InnerIs DEF NextOfBlock, NextIteration, BlockDone, BlockFails, Returned
<1>2. /\ s \in Steps /\ Context /\ param \in Steps \cup {None} /\ f.saved \in Steps \cup {None}
      /\ pendingJump \in Steps \cup {None}
  BY <1>1, StepOfFrame, Parts DEF Context
<1>3. CASE NextOfBlock(f)
  <2> DEFINE g == [f EXCEPT !.k = @ + 1]
  <2>1. /\ g \in Frame /\ g.step = s /\ g.loose = f.loose /\ g.phase = "block" /\ g.k = f.k + 1
        /\ f.k \in Nat
    BY <1>1 DEF Frame
  <2>2. /\ RunBlock(t, g) /\ f.k < Len(Block[s])
        /\ UNCHANGED <<pendingJump, callDepth, param>> /\ CtxUnchanged
    BY <1>3 DEF NextOfBlock, FnUnchanged
  <2>3. SetTop(t, g) /\ job' = [do |-> "begin", th |-> t, step |-> Block[s][f.k + 1]]
    BY <2>1, <2>2 DEF RunBlock
  <2>4. Block[s][f.k + 1] \in Steps
    BY <1>2, <2>1, <2>2
  <2>5. job' \in Job /\ job'.th = t /\ Busy(t)'
    BY <1>1, <2>3, <2>4, BeginJob
  <2>6. Context'
    BY <1>2, <2>2, ContextKept
  <2>7. g.phase = "block" <=> Busy(t)'
    BY <2>1, <2>5
  <2>8. callDepth' = callDepth /\ SetTop(t, g)
    BY <2>2, <2>3
  <2> HIDE DEF g
  <2>9. QED
    BY <1>1, <2>1, <2>5, <2>6, <2>7, <2>8, TopStep
<1>4. CASE NextIteration(f)
  <2> DEFINE g == [f EXCEPT !.phase = "before", !.iter = @ + 1]
  <2>1. g \in Frame /\ g.step = s /\ g.loose = f.loose /\ g.phase = "before"
    <3>1. f.iter + 1 \in 0 .. MaxIterations
      BY <1>1, <1>4 DEF NextIteration, Frame
    <3>2. QED
      BY <1>1, <3>1, Zenon DEF Frame
  <2>2. /\ SetTop(t, g) /\ job' = Idle /\ ~Calls(s)
        /\ UNCHANGED <<pendingJump, callDepth, param>> /\ CtxUnchanged
    BY <1>1, <1>4, StepOfFrame DEF NextIteration, FnUnchanged
  <2>3. job' \in Job /\ ~Busy(t)'
    BY <2>2, IdleJob
  <2>4. Context'
    BY <1>2, <2>2, ContextKept
  <2>5. (g.phase = "block" <=> Busy(t)') /\ g.phase # "block"
    BY <2>1, <2>3
  <2> HIDE DEF g
  <2>6. QED
    BY <1>1, <2>1, <2>2, <2>3, <2>4, <2>5, TopStep
<1>5. ASSUME Restore(f)
      PROVE  /\ param' \in Steps \cup {None}
             /\ \/ callDepth' = callDepth /\ ~Calls(s)
                \/ callDepth' = callDepth - 1 /\ Calls(s)
  BY <1>2, <1>5 DEF Restore, FnUnchanged
<1>6. CASE BlockDone(f)
  <2>1. Restore(f) /\ Validate(t, f) /\ UNCHANGED pendingJump /\ CtxUnchanged
    BY <1>6 DEF BlockDone
  <2>2. Context'
    BY <1>2, <1>5, <2>1, ContextKept
  <2>3. QED
    BY <1>1, <1>5, <2>1, <2>2, ValidateStep
<1>7. CASE BlockFails(f)
  <2> DEFINE g == [f EXCEPT !.phase = "after"]
  <2>1. g \in Frame /\ g.step = s /\ g.loose = f.loose /\ g.phase = "after"
    BY <1>1, Zenon DEF Frame
  <2>2. /\ Restore(f) /\ EndBody(t, FALSE) /\ SetTop(t, g)
        /\ UNCHANGED pendingJump /\ CtxUnchanged
    BY <1>7 DEF BlockFails
  <2>3. job' \in Job /\ job'.th = t /\ ~Busy(t)'
    BY <1>1, <2>2, EndJob
  <2>4. Context'
    BY <1>2, <1>5, <2>2, ContextKept
  <2>5. (g.phase = "block" <=> Busy(t)') /\ g.phase # "block"
    BY <2>1, <2>3
  <2>6. \/ callDepth' = callDepth /\ ~Calls(s)
        \/ callDepth' = callDepth - 1 /\ Calls(s)
    BY <1>5, <2>2
  <2>7. SetTop(t, g)
    BY <2>2
  <2> HIDE DEF g
  <2>8. QED
    BY <1>1, <2>1, <2>3, <2>4, <2>5, <2>6, <2>7, TopStep
<1>8. QED
  BY <1>3, <1>4, <1>6, <1>7

-----------------------------------------------------------------------------
(* What a timeout makes of the frames of a thread: those below the depth d *)
(* stay with it, and the body goes on from d.                              *)
LEMMA FramesCut ==
  ASSUME NEW s \in Seq(Frame), NEW d \in 1 .. Len(s), NEW f \in Frame
  PROVE  LET n == Append(SubSeq(s, 1, d - 1), f)
         IN /\ n \in Seq(Frame) /\ n # <<>> /\ Len(n) = d /\ n[d] = f
            /\ \A e \in 1 .. d - 1 : n[e] = s[e]
<1> DEFINE b == SubSeq(s, 1, d - 1)
<1>1. /\ b \in Seq(Frame) /\ Len(b) = d - 1
      /\ \A e \in 1 .. d - 1 : b[e] = s[e]
  BY FramesKept
<1> HIDE DEF b
<1>2. LET n == Append(b, f)
      IN /\ Len(b) \in Nat
         /\ n \in Seq(Frame) /\ n # <<>> /\ Len(n) = Len(b) + 1 /\ n[Len(b) + 1] = f
         /\ \A e \in 1 .. Len(b) : n[e] = b[e]
  BY <1>1, FramePushed
<1>3. Len(b) = d - 1 /\ d \in Nat
  BY <1>1
<1>4. LET n == Append(b, f)
      IN /\ n \in Seq(Frame) /\ n # <<>> /\ Len(n) = d /\ n[d] = f
         /\ \A e \in 1 .. d - 1 : n[e] = s[e]
  BY <1>1, <1>2, <1>3
<1>5. QED
  BY <1>4 DEF b

LEMMA FramesMoved ==
  ASSUME NEW s \in Seq(Frame), NEW d \in 1 .. Len(s), NEW f \in Frame
  PROVE  LET n == <<f>> \o SubSeq(s, d + 1, Len(s))
         IN /\ n \in Seq(Frame) /\ n # <<>> /\ Len(n) = Len(s) - d + 1 /\ n[1] = f
            /\ \A e \in 2 .. Len(s) - d + 1 : n[e] = s[e + d - 1]
<1> DEFINE r == SubSeq(s, d + 1, Len(s))
<1>1. /\ r \in Seq(Frame) /\ Len(r) = Len(s) - d /\ Len(s) \in Nat /\ d \in Nat
      /\ \A i \in 1 .. Len(s) - d : r[i] = s[d + 1 + i - 1]
  BY SubSeqProperties
<1> HIDE DEF r
<1>2. LET n == <<f>> \o r
      IN /\ n \in Seq(Frame) /\ n # <<>> /\ Len(n) = 1 + Len(r) /\ n[1] = f
         /\ \A e \in 2 .. Len(r) + 1 : n[e] = r[e - 1]
  <2> DEFINE o == <<f>>
  <2>1. o \in Seq(Frame) /\ Len(o) = 1 /\ o[1] = f
    OBVIOUS
  <2> HIDE DEF o
  <2>2. /\ o \o r \in Seq(Frame) /\ Len(o \o r) = 1 + Len(r) /\ Len(r) \in Nat
        /\ \A i \in 1 .. 1 + Len(r) :
             (o \o r)[i] = IF i <= 1 THEN o[i] ELSE r[i - 1]
    <3>1. /\ o \o r \in Seq(Frame) /\ Len(o \o r) = Len(o) + Len(r)
          /\ \A i \in 1 .. Len(o) + Len(r) :
               (o \o r)[i] = IF i <= Len(o) THEN o[i] ELSE r[i - Len(o)]
      <4>1. o \in Seq(Frame) /\ r \in Seq(Frame)
        BY <1>1, <2>1
      <4>2. QED
        BY <4>1, ConcatProperties
    <3>2. Len(r) \in Nat
      BY <1>1
    <3>3. QED
      BY <2>1, <3>1, <3>2
  <2>3. (o \o r)[1] = f /\ o \o r # <<>>
    BY <2>1, <2>2
  <2>4. ASSUME NEW e \in 2 .. Len(r) + 1
        PROVE  (o \o r)[e] = r[e - 1]
    BY <2>2
  <2>5. QED
    BY <2>2, <2>3, <2>4 DEF o
<1>3. ASSUME NEW e \in 2 .. Len(s) - d + 1
      PROVE  (<<f>> \o r)[e] = s[e + d - 1]
  <2>1. e - 1 \in 1 .. Len(s) - d /\ d + 1 + (e - 1) - 1 = e + d - 1 /\ e \in 2 .. Len(r) + 1
    BY <1>1
  <2>2. QED
    BY <1>1, <1>2, <2>1
<1>4. LET n == <<f>> \o r
      IN /\ n \in Seq(Frame) /\ n # <<>> /\ Len(n) = Len(s) - d + 1 /\ n[1] = f
         /\ \A e \in 2 .. Len(s) - d + 1 : n[e] = s[e + d - 1]
  BY <1>1, <1>2, <1>3
<1>5. QED
  BY <1>4 DEF r

(* A timeout moves functions to another thread; their number stays.        *)
LEMMA CountMoved ==
  ASSUME NEW st, NEW n, NEW t \in Threads, NEW z \in Threads \ {t}, NEW d \in Nat \ {0},
         \A o \in Threads \ {t, z} : FunctionsOf(n[o]) = FunctionsOf(st[o]),
         FunctionsOf(st[z]) = {}, FunctionsOf(st[t]) \subseteq Nat, FunctionsOf(n[z]) \subseteq Nat \ {0},
         FunctionsOf(n[t]) = {e \in FunctionsOf(st[t]) : e < d},
         \A e \in Nat \ {0} : e \in FunctionsOf(n[z]) <=> e + d - 1 \in FunctionsOf(st[t]),
         IsFiniteSet(Functions(st))
  PROVE  /\ IsFiniteSet(Functions(n))
         /\ Cardinality(Functions(n)) = Cardinality(Functions(st))
<1> DEFINE S == Functions(st)
           T == Functions(n)
           Moves(x) == x[1] = t /\ x[2] >= d
           g == [x \in S |-> IF Moves(x) THEN <<z, x[2] - d + 1>> ELSE x]
<1>1. /\ \A x \in S : x = <<x[1], x[2]>> /\ x[1] \in Threads /\ x[2] \in FunctionsOf(st[x[1]])
      /\ \A x \in T : x = <<x[1], x[2]>> /\ x[1] \in Threads /\ x[2] \in FunctionsOf(n[x[1]])
      /\ \A o, e : <<o, e>> \in S <=> o \in Threads /\ e \in FunctionsOf(st[o])
      /\ \A o, e : <<o, e>> \in T <=> o \in Threads /\ e \in FunctionsOf(n[o])
  BY FunctionsAre DEF Functions
<1>2. \A x \in S : x[1] # z /\ (x[1] = t => x[2] \in Nat)
  BY <1>1
<1> HIDE DEF S, T
<1>3. ASSUME NEW x \in S PROVE g[x] \in T
  <2>1. CASE Moves(x)
    <3>1. /\ x[2] - d + 1 \in Nat \ {0} /\ x[2] - d + 1 + d - 1 = x[2]
          /\ x[2] \in FunctionsOf(st[t])
      <4>1. x[1] = t /\ x[2] \in Nat /\ x[2] >= d
        BY <1>2, <2>1
      <4>2. x[2] \in FunctionsOf(st[t])
        BY <1>1, <4>1
      <4>3. \A i \in Nat : i >= d => i - d + 1 \in Nat \ {0} /\ i - d + 1 + d - 1 = i
        OBVIOUS
      <4>4. QED
        BY <4>1, <4>2, <4>3, Zenon
    <3>2. x[2] - d + 1 \in FunctionsOf(n[z])
      BY <3>1
    <3>3. <<z, x[2] - d + 1>> \in T
      BY <1>1, <3>2
    <3>4. QED
      BY <2>1, <3>3
  <2>2. CASE ~Moves(x)
    <3>1. x[1] \in Threads /\ x[1] # z /\ x[2] \in FunctionsOf(st[x[1]])
      BY <1>1, <1>2
    <3>2. x[2] \in FunctionsOf(n[x[1]])
      <4>1. CASE x[1] = t
        <5>1. x[2] \in Nat /\ ~(x[2] >= d) /\ x[2] \in FunctionsOf(st[t])
          BY <1>2, <2>2, <3>1, <4>1
        <5>2. x[2] < d
          BY <5>1
        <5>3. QED
          BY <4>1, <5>1, <5>2
      <4>2. CASE x[1] # t
        BY <3>1, <4>2
      <4>3. QED
        BY <4>1, <4>2
    <3>3. x \in T
      BY <1>1, <3>1, <3>2
    <3>4. QED
      BY <2>2, <3>3
  <2>3. QED
    BY <2>1, <2>2
<1>4. g \in [S -> T]
  BY <1>3
<1>5. ASSUME NEW x \in S, NEW y \in S, g[x] = g[y] PROVE x = y
  <2>1. /\ x = <<x[1], x[2]>> /\ y = <<y[1], y[2]>>
        /\ x[1] # z /\ y[1] # z /\ (x[1] = t => x[2] \in Nat) /\ (y[1] = t => y[2] \in Nat)
    BY <1>1, <1>2
  <2>2. CASE Moves(x) /\ Moves(y)
    <3>1. <<z, x[2] - d + 1>> = <<z, y[2] - d + 1>>
      BY <1>5, <2>2
    <3>2. x[2] = y[2] /\ x[1] = y[1]
      BY <2>1, <2>2, <3>1
    <3>3. QED
      BY <2>1, <3>2
  <2>3. CASE Moves(x) /\ ~Moves(y)
    <3>1. y = <<z, x[2] - d + 1>>
      BY <1>5, <2>3
    <3>2. QED
      BY <2>1, <3>1
  <2>4. CASE ~Moves(x) /\ Moves(y)
    <3>1. x = <<z, y[2] - d + 1>>
      BY <1>5, <2>4
    <3>2. QED
      BY <2>1, <3>1
  <2>5. CASE ~Moves(x) /\ ~Moves(y)
    BY <1>5, <2>5
  <2>6. QED
    BY <2>2, <2>3, <2>4, <2>5
<1>6. ASSUME NEW y \in T PROVE \E x \in S : g[x] = y
  <2>1. y = <<y[1], y[2]>> /\ y[1] \in Threads /\ y[2] \in FunctionsOf(n[y[1]])
    BY <1>1
  <2>2. CASE y[1] = z
    <3>1. y[2] \in Nat \ {0}
      BY <2>1, <2>2
    <3>2. PICK i \in Nat : i = y[2] + d - 1
      BY <3>1
    <3>3. i >= d /\ i - d + 1 = y[2] /\ i \in FunctionsOf(st[t])
      BY <2>1, <2>2, <3>1, <3>2
    <3>4. <<t, i>> \in S
      BY <1>1, <3>3
    <3>5. g[<<t, i>>] = <<z, y[2]>>
      BY <3>3, <3>4
    <3>6. QED
      BY <2>1, <2>2, <3>4, <3>5
  <2>3. CASE y[1] = t
    <3>1. y[2] \in FunctionsOf(st[t]) /\ y[2] < d /\ y[2] \in Nat
      BY <2>1, <2>3
    <3>2. y \in S /\ ~Moves(y)
      BY <1>1, <2>1, <2>3, <3>1
    <3>3. QED
      BY <3>2
  <2>4. CASE y[1] # z /\ y[1] # t
    <3>1. y[2] \in FunctionsOf(st[y[1]])
      BY <2>1, <2>4
    <3>2. y \in S /\ ~Moves(y)
      BY <1>1, <2>1, <2>4, <3>1
    <3>3. QED
      BY <3>2
  <2>5. QED
    BY <2>2, <2>3, <2>4
<1> HIDE DEF g
<1>7. g \in Bijection(S, T)
  BY <1>4, <1>5, <1>6 DEF Bijection, Injection, Surjection, IsInjective
<1>8. ExistsBijection(S, T)
  BY <1>7 DEF ExistsBijection
<1>9. QED
  BY <1>8, FS_Bijection DEF S, T

LEMMA StepTimeoutStep ==
  ASSUME IInv, NEW t \in Threads, NEW d \in 1 .. Len(stack[t]), StepTimeout(t, d)
  PROVE  IInv'
<1> DEFINE s == stack[t]
           f == s[d]
           g == [f EXCEPT !.phase = "after"]
           h == [f EXCEPT !.loose = TRUE]
           n == Append(SubSeq(s, 1, d - 1), g)
           m == <<h>> \o SubSeq(s, d + 1, Len(s))
           free == {z \in Threads \ {0} : stack[z] = <<>>}
<1>1. /\ job = Idle /\ s \in Seq(Frame) /\ Len(s) \in Nat /\ d \in 1 .. Len(s)
      /\ stack \in [Threads -> Seq(Frame)] /\ f \in Frame
  BY Parts DEF StepTimeout
<1>2. ~f.loose /\ f.phase \in {"before", "block", "after"}
  BY DEF StepTimeout
<1>3. /\ g \in Frame /\ ~g.loose /\ g.phase = "after" /\ g.step = f.step
      /\ h \in Frame /\ h.loose /\ h.phase = f.phase /\ h.step = f.step
  BY <1>1, <1>2, Zenon DEF Frame
<1>4. EndBody(t, FALSE) /\ UNCHANGED <<pendingJump, callDepth, param>> /\ CtxUnchanged
  BY DEF StepTimeout, FnUnchanged
<1>5. /\ job' \in Job /\ job'.th = t /\ ~Doing("begin")' /\ ~Doing("outcome")'
      /\ \A o : ~Busy(o)'
  BY <1>4, EndJob
<1>6. Context'
  BY <1>4, Parts, ContextKept DEF Context
<1>7. \A o \in Threads : ~Busy(o) /\ Placed(stack[o], Busy(o), o # 0)
  BY <1>1, Parts DEF Busy, Doing
<1>8. \A e \in 1 .. Len(s) : /\ s[e].phase = "block" <=> e < Len(s)
                             /\ s[e].loose <=> e = 1 /\ t # 0
                             /\ s[e].loose => s[e].phase \in {"before", "block", "after"}
  <2>1. Placed(s, Busy(t), t # 0) /\ ~Busy(t) /\ DOMAIN s = 1 .. Len(s)
    BY <1>1, <1>7
  <2>2. QED
    BY <2>1, Zenon DEF Placed
<1>9. \/ free = {} /\ f.phase # "block" /\ stack' = [stack EXCEPT ![t] = n]
      \/ \E z \in free : stack' = [[stack EXCEPT ![t] = n] EXCEPT ![z] = m]
  BY DEF StepTimeout
<1>10. /\ n \in Seq(Frame) /\ n # <<>> /\ Len(n) = d /\ n[d] = g
       /\ \A e \in 1 .. d - 1 : n[e] = s[e]
  BY <1>1, <1>3, FramesCut
<1>11. /\ m \in Seq(Frame) /\ m # <<>> /\ Len(m) = Len(s) - d + 1 /\ m[1] = h
       /\ \A e \in 2 .. Len(s) - d + 1 : m[e] = s[e + d - 1]
  <2> HIDE DEF h, s
  <2>1. h \in Frame
    BY <1>3
  <2>2. QED
    BY <1>1, <2>1, FramesMoved
<1> HIDE DEF g, h, n, m, s
<1>12. Placed(n, FALSE, t # 0)
  <2>1. ASSUME NEW e \in 1 .. d
        PROVE  /\ n[e].phase = "block" <=> e < d
               /\ n[e].loose <=> e = 1 /\ t # 0
               /\ n[e].loose => n[e].phase \in {"before", "block", "after"}
    <3>1. CASE e = d
      BY <1>1, <1>2, <1>3, <1>8, <1>10, <3>1
    <3>2. CASE e \in 1 .. d - 1
      BY <1>1, <1>8, <1>10, <3>2
    <3>3. QED
      BY <1>1, <3>1, <3>2
  <2>2. DOMAIN n = 1 .. d
    BY <1>10
  <2>3. QED
    BY <1>10, <2>1, <2>2, Zenon DEF Placed
<1>13. FunctionsOf(s) \subseteq 1 .. Len(s) /\ FunctionsOf(n) = {e \in FunctionsOf(s) : e < d}
  BY <1>1, <1>3, <1>10 DEF FunctionsOf
<1>14. CASE free = {} /\ f.phase # "block" /\ stack' = [stack EXCEPT ![t] = n]
  <2>1. /\ stack' \in [Threads -> Seq(Frame)] /\ stack'[t] = n
        /\ \A o \in Threads \ {t} : stack'[o] = stack[o]
    BY <1>1, <1>10, <1>14
  <2>2. Placed(stack[t], Busy(t), t # 0)'
    BY <1>5, <1>12, <2>1, Zenon DEF Placed
  <2>3. JobFits'
    BY <1>5, <1>10, <2>1 DEF JobFits, Running
  <2>4. d = Len(s)
    BY <1>1, <1>8, <1>14 DEF s
  <2>5. FunctionsOf(n) = FunctionsOf(s)
    BY <1>1, <1>13, <1>14, <2>4 DEF FunctionsOf, s
  <2>6. Functions(stack') = Functions(stack)
    BY <2>1, <2>5, CountKept DEF s
  <2>7. QED
    BY <1>1, <1>4, <1>5, <1>6, <2>1, <2>2, <2>3, <2>6, Parts, ThreadStep
<1>15. ASSUME NEW z \in free, stack' = [[stack EXCEPT ![t] = n] EXCEPT ![z] = m]
       PROVE  IInv'
  <2>1. z \in Threads \ {0} /\ stack[z] = <<>> /\ z # t
    BY <1>1 DEF s
  <2>2. /\ stack' \in [Threads -> Seq(Frame)] /\ stack'[t] = n /\ stack'[z] = m
        /\ \A o \in Threads \ {t, z} : stack'[o] = stack[o]
    BY <1>1, <1>10, <1>11, <1>15, <2>1
  <2>3. Placed(m, FALSE, z # 0)
    <3>1. ASSUME NEW e \in 1 .. Len(m)
          PROVE  /\ m[e].phase = "block" <=> e < Len(m)
                 /\ m[e].loose <=> e = 1 /\ z # 0
                 /\ m[e].loose => m[e].phase \in {"before", "block", "after"}
      <4>1. CASE e = 1
        BY <1>1, <1>2, <1>3, <1>8, <1>11, <2>1, <4>1 DEF s
      <4>2. CASE e # 1
        <5>1. e \in 2 .. Len(s) - d + 1 /\ e + d - 1 \in 1 .. Len(s) /\ e + d - 1 # 1
              /\ (e + d - 1 < Len(s) <=> e < Len(m))
          <6>1. Len(s) \in Nat /\ d \in 1 .. Len(s) /\ Len(m) = Len(s) - d + 1
            BY <1>1, <1>11
          <6> HIDE DEF f, free
          <6>2. QED
            BY <4>2, <6>1
        <5>2. m[e] = s[e + d - 1]
          BY <1>11, <5>1
        <5>3. QED
          BY <1>8, <4>2, <5>1, <5>2
      <4>3. QED
        BY <4>1, <4>2
    <3>2. DOMAIN m = 1 .. Len(m)
      BY <1>11
    <3>3. QED
      BY <3>1, <3>2, Zenon DEF Placed
  <2>4. ASSUME NEW o \in Threads PROVE Placed(stack[o], Busy(o), o # 0)'
    <3>1. ~Busy(o)' /\ ~Busy(o)
      BY <1>5, <1>7
    <3>2. CASE o = t
      BY <1>12, <2>2, <3>1, <3>2, Zenon DEF Placed
    <3>3. CASE o = z
      BY <2>2, <2>3, <3>1, <3>3, Zenon DEF Placed
    <3>4. CASE o \in Threads \ {t, z}
      <4>1. Placed(stack[o], Busy(o), o # 0) /\ stack'[o] = stack[o]
        BY <1>7, <2>2, <3>4
      <4>2. QED
        BY <3>1, <4>1, Zenon DEF Placed
    <3>5. QED
      BY <3>2, <3>3, <3>4
  <2>5. JobFits'
    BY <1>5, <1>10, <2>2 DEF JobFits, Running
  <2>6. /\ FunctionsOf(stack[z]) = {} /\ FunctionsOf(stack[t]) \subseteq Nat
        /\ FunctionsOf(stack'[z]) \subseteq Nat \ {0}
        /\ FunctionsOf(stack'[t]) = {e \in FunctionsOf(stack[t]) : e < d}
        /\ \A o \in Threads \ {t, z} : FunctionsOf(stack'[o]) = FunctionsOf(stack[o])
    <3>1. FunctionsOf(stack[z]) = {} /\ FunctionsOf(m) \subseteq Nat \ {0}
      BY <1>11, <2>1 DEF FunctionsOf
    <3>2. FunctionsOf(s) \subseteq Nat
      BY <1>1, <1>13
    <3>3. QED
      BY <1>13, <2>2, <3>1, <3>2 DEF s
  <2>7. ASSUME NEW e \in Nat \ {0}
        PROVE  e \in FunctionsOf(m) <=> e + d - 1 \in FunctionsOf(s)
    <3>1. CASE e > Len(s) - d + 1
      BY <1>1, <1>11, <1>13, <3>1 DEF FunctionsOf
    <3>2. CASE e = 1
      BY <1>1, <1>3, <1>11, <3>2 DEF FunctionsOf, s
    <3>3. CASE e \in 2 .. Len(s) - d + 1
      <4>1. m[e] = s[e + d - 1] /\ e + d - 1 \in DOMAIN s /\ e \in DOMAIN m
        BY <1>1, <1>11, <3>3
      <4>2. QED
        BY <4>1 DEF FunctionsOf
    <3>4. QED
      BY <1>1, <3>1, <3>2, <3>3
  <2>8. \A e \in Nat \ {0} : e \in FunctionsOf(stack'[z]) <=> e + d - 1 \in FunctionsOf(stack[t])
    BY <2>2, <2>7 DEF s
  <2>9. /\ IsFiniteSet(Functions(stack'))
        /\ Cardinality(Functions(stack')) = Cardinality(Functions(stack))
    <3>1. IsFiniteSet(Functions(stack)) /\ d \in Nat \ {0} /\ z \in Threads \ {t}
      BY <1>1, <2>1, Parts
    <3>2. QED
      BY <2>6, <2>8, <3>1, CountMoved
  <2>10. callDepth' \in 0 .. MaxCallDepth /\ callDepth' = Cardinality(Functions(stack'))
    BY <1>4, <2>9, Parts
  <2>11. QED
    BY <1>5, <1>6, <2>2, <2>4, <2>5, <2>9, <2>10, Zenon
       DEF IInv, TypeOK, Context, Counted, DepthCounts
<1>16. QED
  BY <1>9, <1>14, <1>15

-----------------------------------------------------------------------------
(* The invariant, of every automation.                                     *)
LEMMA ExecutorInit == Init => IInv
<1> SUFFICES ASSUME Init PROVE IInv
  OBVIOUS
<1>1. TypeOK
  <2>1. stack \in [Threads -> Seq(Frame)] /\ timed \subseteq Timeable
    BY DEF Init
  <2>2. job \in Job
    BY JobIs DEF Init
  <2>3. callDepth \in 0 .. MaxCallDepth /\ runs \in 0 .. MaxRuns
        /\ status \in [Steps -> {"none", "success", "skipped", "failed"}] /\ errors \subseteq Steps
    BY DEF Init
  <2>4. QED
    BY <2>1, <2>2, <2>3, Zenon DEF Init, TypeOK
<1>2. \A t \in Threads : stack[t] = <<>> /\ FunctionsOf(stack[t]) = {}
  BY DEF Init, FunctionsOf
<1>3. Functions(stack) = {}
  BY <1>2, FunctionsAre DEF Functions
<1>4. Counted
  BY <1>3, FS_EmptySet DEF Counted, DepthCounts, Init
<1>5. JobFits
  BY DEF Init, JobFits, Doing
<1>6. \A t \in Threads : Placed(stack[t], Busy(t), t # 0)
  BY <1>2 DEF Placed
<1>7. QED
  BY <1>1, <1>4, <1>5, <1>6 DEF IInv

LEMMA ExecutorStep == IInv /\ [Next]_vars => IInv'
<1> SUFFICES ASSUME IInv, [Next]_vars PROVE IInv'
  OBVIOUS
<1>1. CASE Micro
  BY <1>1, BeginStep, AttemptStep, EndedSteps, FailedSteps, QuietSteps, BlockSteps DEF Micro
<1>2. CASE \E s \in Steps : Start(s)
  BY <1>2, QuietSteps
<1>3. CASE \E t \in Threads : Event(t)
  BY <1>3, AnsweredStep, QuietSteps, ShotTakenStep, StepTimeoutStep DEF Event
<1>4. CASE UNCHANGED vars
  <2>1. UNCHANGED <<timed, stack, job, pendingJump, callDepth, param, status, errors, runs, over>>
    BY <1>4 DEF vars
  <2>2. TypeOK' /\ JobFits' /\ Counted'
    BY <2>1 DEF IInv, TypeOK, JobFits, Running, Doing, Counted, DepthCounts
  <2>3. ASSUME NEW t \in Threads PROVE Placed(stack[t], Busy(t), t # 0)'
    <3>1. (Busy(t)' <=> Busy(t)) /\ stack' = stack /\ Placed(stack[t], Busy(t), t # 0)
      BY <2>1 DEF IInv, Busy, Doing
    <3>2. QED
      BY <3>1, Zenon DEF Placed
  <2>4. QED
    BY <2>2, <2>3 DEF IInv
<1>5. QED
  BY <1>1, <1>2, <1>3, <1>4 DEF Next

(* Frames are placed as executeWithPolicy nests, whatever timeouts part.   *)
THEOREM ExecutorInvariant == Spec => []IInv
BY ExecutorInit, ExecutorStep, PTL DEF Spec

(* The variables keep to their types, the jobs and the frames to the       *)
(* fields that step-executor.ts reads of them.                             *)
THEOREM ExecutorTyped == Spec => []TypeOK
<1>1. IInv => TypeOK
  BY DEF IInv
<1>2. QED
  BY <1>1, ExecutorInvariant, PTL

(* callDepth is the number of functions in execution, of the run and of    *)
(* the bodies its timeouts gave up on: the finally block of invokeFunction *)
(* is reached once for each of them, whatever ends it.                     *)
THEOREM DepthIsCounted == Spec => []DepthCounts
<1>1. IInv => DepthCounts
  BY DEF IInv, Counted
<1>2. QED
  BY <1>1, ExecutorInvariant, PTL

-----------------------------------------------------------------------------
(* Without timeouts.                                                       *)
LEMMA AloneIs ==
  ASSUME IInv, Alone, timed = {}
  PROVE  /\ \A t \in Threads \ {0} : stack[t] = <<>>
         /\ 0 \in Threads /\ stack[0] \in Seq(Frame) /\ stack \in [Threads -> Seq(Frame)]
         /\ OwnJump /\ JumpIsOwn /\ Shadows(stack[0], param)
         /\ \A t \in Threads : Running(t) => t = 0
         /\ job # Idle => job.th = 0
         /\ Running(0) => ~Inner(0).loose
<1>1. 0 \in Threads
  BY DEF Threads
<1>2. /\ \A t \in Threads \ {0} : stack[t] = <<>>
      /\ OwnJump /\ JumpIsOwn /\ Shadows(stack[0], param)
  BY DEF Alone
<1>3. \A t \in Threads : Running(t) => t = 0
  BY <1>2 DEF Running
<1>4. job # Idle => job.th = 0
  BY <1>3, JobRuns, JobKinds, Parts DEF Doing
<1>5. Running(0) => ~Inner(0).loose
  <2>1. Placed(stack[0], Busy(0), 0 # 0)
    BY <1>1, Parts
  <2>2. QED
    BY <1>1, <2>1, InnerIs, Zenon DEF Placed
<1>6. QED
  BY <1>1, <1>2, <1>3, <1>4, <1>5, Parts

(* A step of the run that replaces its innermost frame.                    *)
LEMMA AloneTop ==
  ASSUME IInv, Alone, timed = {}, Running(0), NEW f \in Frame, SetTop(0, f),
         f.step = Inner(0).step, ~Doing("outcome")',
         pendingJump' = None \/ pendingJump' = f.step,
         \/ /\ param' = param /\ f.saved = Inner(0).saved
            /\ Calls(f.step) => (f.phase = "block" <=> Inner(0).phase = "block")
         \/ /\ param' = f.step /\ f.saved = param
            /\ Calls(f.step) /\ f.phase = "block" /\ Inner(0).phase # "block"
         \/ /\ param' = Inner(0).saved
            /\ Calls(f.step) /\ f.phase # "block" /\ Inner(0).phase = "block"
  PROVE  Alone'
<1> DEFINE s == stack[0]
           n == [s EXCEPT ![Len(s)] = f]
<1>1. /\ s \in Seq(Frame) /\ s # <<>> /\ Len(s) \in Nat \ {0} /\ 0 \in Threads
      /\ Inner(0) = s[Len(s)] /\ stack \in [Threads -> Seq(Frame)]
      /\ Shadows(s, param) /\ \A t \in Threads \ {0} : stack[t] = <<>>
  BY AloneIs, InnerIs
<1>2. /\ n \in Seq(Frame) /\ n # <<>> /\ Len(n) = Len(s) /\ n[Len(s)] = f
      /\ \A d \in 1 .. Len(s) - 1 : n[d] = s[d]
  BY <1>1, TopReplaced
<1> HIDE DEF n
<1>3. stack' = [stack EXCEPT ![0] = n]
  BY DEF SetTop, n
<1>4. stack'[0] = n /\ \A t \in Threads \ {0} : stack'[t] = <<>>
  BY <1>1, <1>2, <1>3
<1>5. OwnJump' /\ JumpIsOwn'
  BY <1>2, <1>4 DEF OwnJump, JumpIsOwn, Running, Inner
<1>6. Shadows(n, param')
  <2>1. CASE /\ param' = param /\ f.saved = Inner(0).saved
             /\ Calls(f.step) => (f.phase = "block" <=> Inner(0).phase = "block")
    <3>1. FunctionsOf(n) = FunctionsOf(s)
      BY <1>1, <1>2, <2>1, FunctionsAgree
    <3>2. \A d \in FunctionsOf(s) : /\ d <= Len(s) /\ d <= Len(n)
                                    /\ n[d].step = s[d].step /\ n[d].saved = s[d].saved
      BY <1>1, <1>2, <2>1 DEF FunctionsOf
    <3>3. QED
      BY <1>1, <1>2, <2>1, <3>1, <3>2, ShadowsKept
  <2>2. CASE /\ param' = f.step /\ f.saved = param
             /\ Calls(f.step) /\ f.phase = "block" /\ Inner(0).phase # "block"
    <3>1. FunctionsOf(n) = FunctionsOf(s) \cup {Len(s)} /\ Len(s) \notin FunctionsOf(s)
      BY <1>1, <1>2, <2>2, FunctionEntered
    <3>2. Shadows(n, n[Len(s)].step)
      BY <1>1, <1>2, <2>2, <3>1, ShadowsEntered
    <3>3. QED
      BY <1>2, <2>2, <3>2
  <2>3. CASE /\ param' = Inner(0).saved
             /\ Calls(f.step) /\ f.phase # "block" /\ Inner(0).phase = "block"
    <3>1. FunctionsOf(n) = FunctionsOf(s) \ {Len(s)} /\ Len(s) \in FunctionsOf(s)
      BY <1>1, <1>2, <2>3, FunctionLeft
    <3>2. Shadows(n, s[Len(s)].saved)
      BY <1>1, <1>2, <3>1, ShadowsLeft
    <3>3. QED
      BY <1>1, <2>3, <3>2
  <2>4. QED
    BY <2>1, <2>2, <2>3
<1>7. Shadows(stack[0], param)'
  BY <1>4, <1>6
<1>8. \A t \in Threads \ {0} : (stack[t] = <<>>)'
  BY <1>4
<1>9. QED
  BY <1>5, <1>7, <1>8 DEF Alone

(* ... that takes it off.                                                  *)
LEMMA AlonePop ==
  ASSUME IInv, Alone, timed = {}, Running(0), Pop(0), Inner(0).phase # "block",
         param' = param, pendingJump' = None, JumpIsOwn'
  PROVE  Alone'
<1> DEFINE s == stack[0]
           n == SubSeq(s, 1, Len(s) - 1)
<1>1. /\ s \in Seq(Frame) /\ s # <<>> /\ Len(s) \in Nat \ {0} /\ 0 \in Threads
      /\ Inner(0) = s[Len(s)] /\ stack \in [Threads -> Seq(Frame)]
      /\ Shadows(s, param) /\ \A t \in Threads \ {0} : stack[t] = <<>>
  BY AloneIs, InnerIs
<1>2. /\ n \in Seq(Frame) /\ Len(n) = Len(s) - 1
      /\ \A d \in 1 .. Len(s) - 1 : n[d] = s[d]
  <2>1. Len(s) \in 1 .. Len(s)
    BY <1>1
  <2> HIDE DEF s
  <2>2. QED
    BY <1>1, <2>1, FramesKept DEF n
<1> HIDE DEF n
<1>3. stack' = [stack EXCEPT ![0] = n]
  BY DEF Pop, n
<1>4. stack'[0] = n /\ \A t \in Threads \ {0} : stack'[t] = <<>>
  BY <1>1, <1>2, <1>3
<1>5. FunctionsOf(n) = FunctionsOf(s)
  BY <1>1, <1>2, FunctionsPopped
<1>6. \A d \in FunctionsOf(s) : /\ d <= Len(s) /\ d <= Len(n)
                                /\ n[d].step = s[d].step /\ n[d].saved = s[d].saved
  <2>1. FunctionsOf(n) \subseteq 1 .. Len(n)
    BY <1>2 DEF FunctionsOf
  <2>2. ASSUME NEW d \in FunctionsOf(s)
        PROVE  d <= Len(s) /\ d <= Len(n) /\ n[d] = s[d]
    <3>1. d \in 1 .. Len(n)
      BY <1>5, <2>1
    <3>2. QED
      BY <1>1, <1>2, <3>1
  <2>3. QED
    BY <2>2
<1>7. Shadows(stack[0], param)'
  BY <1>1, <1>2, <1>4, <1>5, <1>6, ShadowsKept
<1>8. OwnJump'
  BY DEF OwnJump
<1>9. \A t \in Threads \ {0} : (stack[t] = <<>>)'
  BY <1>4
<1>10. QED
  BY <1>7, <1>8, <1>9 DEF Alone

(* ... that leaves the frames where they are.                              *)
LEMMA AloneJob ==
  ASSUME IInv, Alone, timed = {}, UNCHANGED <<stack, param, pendingJump>>, ~Doing("outcome")'
  PROVE  Alone'
<1>1. OwnJump' /\ JumpIsOwn'
  BY AloneIs DEF OwnJump, JumpIsOwn, Running, Inner
<1>2. Shadows(stack[0], param)'
  BY AloneIs
<1>3. \A t \in Threads \ {0} : (stack[t] = <<>>)'
  BY AloneIs
<1>4. QED
  BY <1>1, <1>2, <1>3 DEF Alone

(* The steps of the run by itself, in the order of Next.                   *)
LEMMA AloneBegin == IInv /\ Alone /\ timed = {} /\ Begin => Alone'
<1> SUFFICES ASSUME IInv, Alone, timed = {}, Begin PROVE Alone'
  OBVIOUS
<1> DEFINE s == stack[0]
           f == [step |-> job.step, phase |-> "before", k |-> 0, iter |-> 0, tries |-> 0,
                 saved |-> None, loose |-> FALSE]
           n == Append(s, f)
<1>1. /\ job.th = 0 /\ job.step \in Steps /\ 0 \in Threads /\ s \in Seq(Frame)
      /\ stack \in [Threads -> Seq(Frame)] /\ Shadows(s, param)
      /\ \A t \in Threads \ {0} : stack[t] = <<>>
  BY AloneIs, JobKinds, Parts DEF Begin, Doing
<1>2. f \in Frame /\ f.phase # "block"
  <2>1. 0 \in Nat /\ 0 \in 0 .. MaxIterations /\ 0 \in 0 .. MaxRetries
    OBVIOUS
  <2>2. QED
    BY <1>1, <2>1, Zenon DEF Frame
<1>3. stack' = [stack EXCEPT ![0] = n]
  BY <1>1 DEF Begin
<1> HIDE DEF f
<1>4. /\ Len(s) \in Nat
      /\ n \in Seq(Frame) /\ Len(n) = Len(s) + 1 /\ n[Len(s) + 1] = f
      /\ \A d \in 1 .. Len(s) : n[d] = s[d]
  BY <1>1, <1>2, FramePushed
<1> HIDE DEF n
<1>5. stack'[0] = n /\ \A t \in Threads \ {0} : stack'[t] = <<>>
  BY <1>1, <1>3, <1>4
<1>6. FunctionsOf(n) = FunctionsOf(s)
  BY <1>1, <1>2, <1>4, FunctionsPushed
<1>7. \A d \in FunctionsOf(s) : /\ d <= Len(s) /\ d <= Len(n)
                                /\ n[d].step = s[d].step /\ n[d].saved = s[d].saved
  BY <1>1, <1>4 DEF FunctionsOf
<1>8. Shadows(stack[0], param)'
  <2>1. Shadows(n, param)
    BY <1>1, <1>4, <1>6, <1>7, ShadowsKept
  <2>2. param' = param
    BY DEF Begin, FnUnchanged
  <2>3. QED
    BY <1>5, <2>1, <2>2
<1>9. pendingJump' = None /\ ~Doing("outcome")'
  BY <1>1, AttemptJob DEF Begin
<1>10. \A t \in Threads \ {0} : (stack[t] = <<>>)'
  BY <1>5
<1>11. QED
  BY <1>8, <1>9, <1>10 DEF Alone, OwnJump, JumpIsOwn

LEMMA AloneValidate ==
  ASSUME IInv, Alone, timed = {}, Running(0), Validate(0, Inner(0)),
         pendingJump' = None \/ pendingJump' = Inner(0).step,
         \/ param' = param /\ (Calls(Inner(0).step) => Inner(0).phase # "block")
         \/ param' = Inner(0).saved /\ Calls(Inner(0).step) /\ Inner(0).phase = "block"
  PROVE  Alone'
<1> DEFINE f == Inner(0)
           g == [f EXCEPT !.phase = "after"]
<1>1. f \in Frame /\ 0 \in Threads
  BY AloneIs, InnerIs
<1>2. g \in Frame /\ g.step = f.step /\ g.saved = f.saved /\ g.phase = "after"
  BY <1>1, Zenon DEF Frame
<1>3. SetTop(0, g) /\ (job' = Idle \/ EndBody(0, TRUE))
  BY DEF Validate
<1>4. ~Doing("outcome")'
  BY <1>1, <1>3, IdleJob, EndJob
<1> HIDE DEF g
<1>5. QED
  BY <1>2, <1>3, <1>4, AloneTop

LEMMA AloneInvoke ==
  ASSUME IInv, Alone, timed = {}, Running(0), Calls(Inner(0).step), Block[Inner(0).step] # <<>>,
         Inner(0).phase # "block", InvokeFunction(0, Inner(0)), UNCHANGED pendingJump
  PROVE  Alone'
<1> DEFINE f == Inner(0)
           s == f.step
           g == [f EXCEPT !.phase = "block", !.k = 1, !.saved = param]
<1>1. /\ f \in Frame /\ 0 \in Threads /\ s \in Steps /\ param \in Steps \cup {None}
      /\ pendingJump = None \/ pendingJump = s
  BY AloneIs, InnerIs, StepOfFrame, Parts DEF Context, OwnJump
<1>2. CASE DepthExceeded
  <2>1. EndBody(0, FALSE) /\ UNCHANGED <<stack, param>>
    BY <1>2 DEF InvokeFunction, FnUnchanged
  <2>2. ~Doing("outcome")'
    BY <1>1, <2>1, EndJob
  <2>3. QED
    BY <2>1, <2>2, AloneJob
<1>3. CASE ~DepthExceeded
  <2>1. g \in Frame /\ g.step = s /\ g.saved = param /\ g.phase = "block" /\ g.k = 1
    BY <1>1 DEF Frame
  <2>2. param' = s /\ RunBlock(0, g)
    BY <1>3 DEF InvokeFunction
  <2>3. SetTop(0, g) /\ job' = [do |-> "begin", th |-> 0, step |-> Block[s][1]]
    BY <2>1, <2>2 DEF RunBlock
  <2>4. Block[s][1] \in Steps
    BY <1>1
  <2>5. ~Doing("outcome")'
    BY <1>1, <2>3, <2>4, BeginJob
  <2> HIDE DEF g
  <2>6. QED
    BY <1>1, <2>1, <2>2, <2>3, <2>5, AloneTop
<1>4. QED
  BY <1>2, <1>3

(* A frame that enters no function and leaves none.                        *)
LEMMA AloneFrame ==
  ASSUME IInv, Alone, timed = {}, Running(0), NEW f \in Frame, SetTop(0, f),
         f.step = Inner(0).step, f.saved = Inner(0).saved,
         Calls(f.step) => (f.phase = "block" <=> Inner(0).phase = "block"),
         UNCHANGED <<param, pendingJump>>, ~Doing("outcome")'
  PROVE  Alone'
<1>1. pendingJump = None \/ pendingJump = Inner(0).step
  BY AloneIs DEF OwnJump
<1>2. QED
  BY <1>1, AloneTop

LEMMA AloneAttempt == IInv /\ Alone /\ timed = {} /\ Attempt => Alone'
<1> SUFFICES ASSUME IInv, Alone, timed = {}, Attempt PROVE Alone'
  OBVIOUS
<1> DEFINE f == Inner(0)
           s == f.step
<1>1. job.th = 0 /\ Running(0) /\ f.phase # "block" /\ f \in Frame /\ 0 \in Threads
  BY AloneIs, JobRuns, InnerIs DEF Attempt
<1>2. CASE Kind[s] = "goto" /\ pendingJump' = s /\ FnUnchanged /\ Validate(0, f)
  BY <1>1, <1>2, AloneValidate DEF FnUnchanged
<1>3. CASE Kind[s] = "call" /\ UNCHANGED pendingJump /\ InvokeFunction(0, f)
  BY <1>1, <1>3, StepOfFrame, AloneInvoke
<1>4. CASE /\ SetTop(0, [f EXCEPT !.phase = "before", !.iter = 0]) /\ job' = Idle
           /\ UNCHANGED pendingJump /\ FnUnchanged
  <2> DEFINE g == [f EXCEPT !.phase = "before", !.iter = 0]
  <2>1. g \in Frame /\ g.step = s /\ g.saved = f.saved /\ g.phase = "before"
    <3>1. 0 \in 0 .. MaxIterations
      OBVIOUS
    <3>2. QED
      BY <1>1, <3>1, Zenon DEF Frame
  <2>2. SetTop(0, g) /\ ~Doing("outcome")' /\ UNCHANGED <<param, pendingJump>>
    BY <1>4, IdleJob DEF FnUnchanged
  <2> HIDE DEF g
  <2>3. QED
    BY <1>1, <2>1, <2>2, AloneFrame
<1>5. QED
  BY <1>1, <1>2, <1>3, <1>4 DEF Attempt

LEMMA AloneAnswered == IInv /\ Alone /\ timed = {} /\ Answered(0) => Alone'
<1> SUFFICES ASSUME IInv, Alone, timed = {}, Answered(0) PROVE Alone'
  OBVIOUS
<1> DEFINE f == Inner(0)
           s == f.step
<1>1. /\ Running(0) /\ f.phase # "block" /\ f \in Frame /\ 0 \in Threads /\ s \in Steps
      /\ pendingJump = None \/ pendingJump = s
  BY AloneIs, InnerIs, StepOfFrame DEF Answered, OwnJump
<1>2. CASE Validate(0, f) /\ pendingJump' \in {s, pendingJump} /\ FnUnchanged
  BY <1>1, <1>2, AloneValidate DEF FnUnchanged
<1>3. CASE /\ Kind[s] = "condition" /\ Block[s] # <<>>
           /\ UNCHANGED pendingJump /\ InvokeFunction(0, f)
  BY <1>1, <1>3, StepOfFrame, AloneInvoke
<1>4. CASE /\ Kind[s] = "loop" /\ RunBlock(0, [f EXCEPT !.phase = "block", !.k = 1])
           /\ UNCHANGED pendingJump /\ FnUnchanged
  <2> DEFINE g == [f EXCEPT !.phase = "block", !.k = 1]
  <2>1. g \in Frame /\ g.step = s /\ g.saved = f.saved /\ g.k = 1
    BY <1>1, Zenon DEF Frame
  <2>2. Block[s][1] \in Steps /\ ~Calls(s)
    BY <1>1, <1>4, StepOfFrame
  <2>3. /\ SetTop(0, g) /\ job' = [do |-> "begin", th |-> 0, step |-> Block[s][1]]
        /\ UNCHANGED <<param, pendingJump>>
    BY <1>4, <2>1 DEF RunBlock, FnUnchanged
  <2>4. ~Doing("outcome")'
    BY <1>1, <2>2, <2>3, BeginJob
  <2> HIDE DEF g
  <2>5. QED
    BY <1>1, <2>1, <2>2, <2>3, <2>4, AloneFrame
<1>5. QED
  BY <1>2, <1>3, <1>4 DEF Answered

LEMMA AloneEnded ==
  IInv /\ Alone /\ timed = {} /\ (BodyIgnored \/ Succeeds \/ Skip(Inner(job.th))) => Alone'
<1> SUFFICES ASSUME IInv, Alone, timed = {}, BodyIgnored \/ Succeeds \/ Skip(Inner(job.th))
             PROVE  Alone'
  OBVIOUS
<1> DEFINE f == Inner(0)
           s == f.step
<1>1. job.th = 0 /\ Running(0) /\ f.phase # "block" /\ f \in Frame /\ 0 \in Threads /\ ~f.loose
  BY AloneIs, JobRuns, InnerIs DEF BodyIgnored, Succeeds, Skip, Fails
<1>2. s \in Steps /\ (pendingJump = None \/ pendingJump = s)
  BY <1>1, AloneIs, StepOfFrame DEF OwnJump
<1>3. Pop(0) /\ ContinueOrJump(0, s) /\ param' = param
  BY <1>1 DEF BodyIgnored, Succeeds, Skip, FnUnchanged
<1>4. /\ pendingJump' = None /\ job'.step = s /\ job'.by = pendingJump
      /\ pendingJump = None => job'.val = "continue"
  BY <1>1, <1>2, <1>3, ContinueOrJumpIs
<1>5. JumpIsOwn'
  BY <1>2, <1>4 DEF JumpIsOwn
<1>6. QED
  BY <1>1, <1>3, <1>4, <1>5, AlonePop

LEMMA AloneRecordFailure ==
  ASSUME IInv, Alone, timed = {}, Running(0), Inner(0).phase # "block",
         RecordFailure(0, Inner(0).step), param' = param
  PROVE  Alone'
<1>1. Inner(0).step \in Steps /\ 0 \in Threads
  BY AloneIs, InnerIs, StepOfFrame
<1>2. Outcome(0, Inner(0).step, "abort", None) /\ Pop(0) /\ pendingJump' = None
  BY DEF RecordFailure
<1>3. job'.val = "abort"
  BY <1>1, <1>2, OutcomeJob
<1>4. JumpIsOwn'
  BY <1>3 DEF JumpIsOwn
<1>5. QED
  BY <1>2, <1>4, AlonePop

LEMMA AloneShotTaken == IInv /\ Alone /\ timed = {} /\ ShotTaken(0) => Alone'
<1> SUFFICES ASSUME IInv, Alone, timed = {}, ShotTaken(0) PROVE Alone'
  OBVIOUS
<1>1. /\ Running(0) /\ Inner(0).phase # "block"
      /\ RecordFailure(0, Inner(0).step) /\ param' = param
  BY DEF ShotTaken, FnUnchanged
<1>2. QED
  BY <1>1, AloneRecordFailure

LEMMA AloneFailed ==
  IInv /\ Alone /\ timed = {} /\ (Retry(Inner(job.th)) \/ Abort(Inner(job.th))) => Alone'
<1> SUFFICES ASSUME IInv, Alone, timed = {}, Retry(Inner(job.th)) \/ Abort(Inner(job.th))
             PROVE  Alone'
  OBVIOUS
<1> DEFINE f == Inner(0)
           s == f.step
<1>1. job.th = 0 /\ Running(0) /\ f.phase # "block" /\ f \in Frame /\ 0 \in Threads
  BY AloneIs, JobRuns, InnerIs DEF Retry, Abort, Fails
<1>2. ASSUME NEW g \in Frame, g.step = s, g.saved = f.saved, g.phase # "block", SetTop(0, g),
             job' = Idle, UNCHANGED <<pendingJump, param>>
      PROVE  Alone'
  BY <1>1, <1>2, IdleJob, AloneFrame
<1>3. CASE Retry(f)
  <2> DEFINE g == [f EXCEPT !.tries = @ + 1, !.phase = "backoff"]
  <2>1. g \in Frame /\ g.step = s /\ g.saved = f.saved /\ g.phase # "block"
    <3>1. f.tries + 1 \in 0 .. MaxRetries
      BY <1>1, <1>3 DEF Retry, Frame
    <3>2. QED
      BY <1>1, <3>1, Zenon DEF Frame
  <2>2. SetTop(0, g) /\ job' = Idle /\ UNCHANGED <<pendingJump, param>>
    BY <1>1, <1>3 DEF Retry, FnUnchanged
  <2> HIDE DEF g
  <2>3. QED
    BY <1>2, <2>1, <2>2
<1>4. CASE Abort(f)
  <2>1. param' = param
    BY <1>4 DEF Abort, FnUnchanged
  <2>2. CASE RecordFailure(0, s)
    BY <1>1, <2>1, <2>2, AloneRecordFailure
  <2>3. CASE /\ SetTop(0, [f EXCEPT !.phase = "shot"]) /\ job' = Idle
             /\ UNCHANGED <<pendingJump, status>>
    <3> DEFINE g == [f EXCEPT !.phase = "shot"]
    <3>1. g \in Frame /\ g.step = s /\ g.saved = f.saved /\ g.phase # "block"
      BY <1>1, Zenon DEF Frame
    <3>2. SetTop(0, g) /\ job' = Idle /\ UNCHANGED pendingJump
      BY <2>3
    <3> HIDE DEF g
    <3>3. QED
      BY <1>2, <2>1, <3>1, <3>2
  <2>4. QED
    BY <1>1, <1>4, <2>2, <2>3 DEF Abort
<1>5. QED
  BY <1>1, <1>3, <1>4

LEMMA AloneQuiet ==
  /\ IInv /\ Alone /\ timed = {} /\ (Failed(0) \/ Valid(0) \/ BackoffOver(0)) => Alone'
  /\ IInv /\ Alone /\ timed = {} /\ (StepOver \/ \E s \in Steps : Start(s)) => Alone'
<1>0. 0 \in Threads
  BY DEF Threads
<1>1. ASSUME IInv, Alone, timed = {}, Failed(0) \/ Valid(0) \/ BackoffOver(0) PROVE Alone'
  <2>1. UNCHANGED <<stack, param, pendingJump>>
    BY <1>1 DEF Failed, Valid, BackoffOver, FnUnchanged
  <2>2. EndBody(0, TRUE) \/ EndBody(0, FALSE) \/ job' = [do |-> "attempt", th |-> 0]
    BY <1>1 DEF Failed, Valid, BackoffOver
  <2>3. ~Doing("outcome")'
    BY <1>0, <2>2, EndJob, AttemptJob
  <2>4. QED
    BY <1>1, <2>1, <2>3, AloneJob
<1>2. ASSUME IInv, Alone, timed = {}, StepOver PROVE Alone'
  BY <1>2, IdleJob, AloneJob DEF StepOver, FnUnchanged
<1>3. ASSUME IInv, Alone, timed = {}, NEW s \in Steps, Start(s) PROVE Alone'
  BY <1>0, <1>3, BeginJob, AloneJob DEF Start, FnUnchanged
<1>4. QED
  BY <1>1, <1>2, <1>3

LEMMA AloneBlock ==
  IInv /\ Alone /\ timed = {} /\ job # Idle /\ Running(job.th)
  /\ (\/ NextOfBlock(Inner(job.th)) \/ NextIteration(Inner(job.th))
      \/ BlockDone(Inner(job.th)) \/ BlockFails(Inner(job.th)))
  => Alone'
<1> SUFFICES ASSUME IInv, Alone, timed = {}, job # Idle, Running(job.th),
                    \/ NextOfBlock(Inner(job.th)) \/ NextIteration(Inner(job.th))
                    \/ BlockDone(Inner(job.th)) \/ BlockFails(Inner(job.th))
             PROVE  Alone'
  OBVIOUS
<1> DEFINE f == Inner(0)
           s == f.step
<1>1. /\ job.th = 0 /\ Running(0) /\ f.phase = "block" /\ f \in Frame /\ 0 \in Threads
      /\ s \in Steps /\ Doing("outcome") /\ pendingJump = None
  <2>1. Doing("outcome")
    BY DEF NextOfBlock, NextIteration, BlockDone, BlockFails, Returned
  <2>2. job.th = 0 /\ 0 \in Threads /\ OwnJump
    BY AloneIs
  <2>3. Running(0) /\ f.phase = "block" /\ f \in Frame
    BY <2>1, <2>2, JobRuns, InnerIs
  <2>4. QED
    BY <2>1, <2>2, <2>3, StepOfFrame DEF OwnJump
<1>2. CASE NextOfBlock(f)
  <2> DEFINE g == [f EXCEPT !.k = @ + 1]
  <2>1. /\ g \in Frame /\ g.step = s /\ g.saved = f.saved /\ g.phase = "block" /\ g.k = f.k + 1
        /\ f.k \in Nat
    BY <1>1 DEF Frame
  <2>2. RunBlock(0, g) /\ f.k < Len(Block[s]) /\ UNCHANGED <<param, pendingJump>>
    BY <1>1, <1>2 DEF NextOfBlock, FnUnchanged
  <2>3. SetTop(0, g) /\ job' = [do |-> "begin", th |-> 0, step |-> Block[s][f.k + 1]]
    BY <2>1, <2>2 DEF RunBlock
  <2>4. Block[s][f.k + 1] \in Steps
    BY <1>1, <2>1, <2>2
  <2>5. ~Doing("outcome")'
    BY <1>1, <2>3, <2>4, BeginJob
  <2> HIDE DEF g
  <2>6. QED
    BY <1>1, <2>1, <2>2, <2>3, <2>5, AloneFrame
<1>3. CASE NextIteration(f)
  <2> DEFINE g == [f EXCEPT !.phase = "before", !.iter = @ + 1]
  <2>1. g \in Frame /\ g.step = s /\ g.saved = f.saved
    <3>1. f.iter + 1 \in 0 .. MaxIterations
      BY <1>1, <1>3 DEF NextIteration, Frame
    <3>2. QED
      BY <1>1, <3>1, Zenon DEF Frame
  <2>2. SetTop(0, g) /\ job' = Idle /\ ~Calls(s) /\ UNCHANGED <<pendingJump, param>>
    BY <1>1, <1>3, StepOfFrame DEF NextIteration, FnUnchanged
  <2>3. ~Doing("outcome")'
    BY <2>2, IdleJob
  <2> HIDE DEF g
  <2>4. QED
    BY <1>1, <2>1, <2>2, <2>3, AloneFrame
<1>4. ASSUME Restore(f)
      PROVE  \/ param' = param /\ ~Calls(s)
             \/ param' = f.saved /\ Calls(s)
  BY <1>4 DEF Restore, FnUnchanged
<1>5. CASE BlockDone(f)
  BY <1>1, <1>4, <1>5, AloneValidate DEF BlockDone
<1>6. CASE BlockFails(f)
  <2> DEFINE g == [f EXCEPT !.phase = "after"]
  <2>1. g \in Frame /\ g.step = s /\ g.saved = f.saved /\ g.phase = "after"
    BY <1>1, Zenon DEF Frame
  <2>2. Restore(f) /\ EndBody(0, FALSE) /\ SetTop(0, g) /\ UNCHANGED pendingJump
    BY <1>1, <1>6 DEF BlockFails
  <2>3. ~Doing("outcome")'
    BY <1>1, <2>2, EndJob
  <2>4. /\ SetTop(0, g) /\ pendingJump' = None
        /\ \/ param' = param /\ ~Calls(s)
           \/ param' = f.saved /\ Calls(s)
    BY <1>1, <1>4, <2>2
  <2> HIDE DEF g
  <2>5. QED
    BY <1>1, <2>1, <2>3, <2>4, AloneTop
<1>7. QED
  BY <1>1, <1>2, <1>3, <1>5, <1>6

LEMMA AloneInit == Init => Alone
<1> SUFFICES ASSUME Init PROVE Alone
  OBVIOUS
<1>1. /\ \A t \in Threads : stack[t] = <<>>
      /\ 0 \in Threads /\ param = None /\ pendingJump = None /\ ~Doing("outcome")
  BY DEF Init, Threads, Doing
<1>2. Shadows(stack[0], param)
  BY <1>1 DEF Shadows, InScope, FunctionsOf
<1>3. QED
  BY <1>1, <1>2 DEF Alone, OwnJump, JumpIsOwn

LEMMA AloneStep == IInv /\ Alone /\ [Next]_vars => Alone'
<1>1. IInv /\ [Next]_vars => timed' = timed
  BY DEF Next, Micro, Event, vars, Begin, Attempt, BodyIgnored, Succeeds, StepOver, Retry, Skip,
         Abort, NextOfBlock, NextIteration, BlockDone, BlockFails, Start, Answered, Failed, Valid,
         ShotTaken, BackoffOver, StepTimeout, CtxUnchanged
<1> SUFFICES ASSUME IInv, Alone, [Next]_vars, timed = {} PROVE Alone'
  BY <1>1 DEF Alone
<1>2. \A t \in Threads : Running(t) => t = 0
  BY AloneIs
<1>3. CASE Micro
  BY <1>3, AloneBegin, AloneAttempt, AloneEnded, AloneFailed, AloneQuiet, AloneBlock DEF Micro
<1>4. CASE \E s \in Steps : Start(s)
  BY <1>4, AloneQuiet
<1>5. ASSUME NEW t \in Threads, Event(t) PROVE Alone'
  <2>1. ~\E d \in 1 .. Len(stack[t]) : StepTimeout(t, d)
    BY DEF StepTimeout
  <2>2. Answered(t) \/ Failed(t) \/ Valid(t) \/ ShotTaken(t) \/ BackoffOver(t)
    BY <1>5, <2>1 DEF Event
  <2>3. t = 0
    BY <1>2, <2>2 DEF Answered, Failed, Valid, ShotTaken, BackoffOver
  <2>4. QED
    BY <2>2, <2>3, AloneAnswered, AloneQuiet, AloneShotTaken
<1>6. CASE UNCHANGED vars
  BY <1>6 DEF vars, Alone, OwnJump, JumpIsOwn, Doing, Running, Inner
<1>7. QED
  BY <1>3, <1>4, <1>5, <1>6 DEF Next

(* Without timeouts the run is alone: the jump that is pending is its      *)
(* innermost step's, and what functions restore is nested as they are.     *)
THEOREM AloneInvariant == Spec => []Alone
BY ExecutorInvariant, AloneInit, AloneStep, PTL DEF Spec

(* Without timeouts a step jumps only where it itself asked to go: the     *)
(* one pending jump of the executor is never another step's.               *)
THEOREM JumpsAreOwn == Spec => []UntimedJumpIsOwn
<1>1. Alone => UntimedJumpIsOwn
  BY DEF Alone, UntimedJumpIsOwn
<1>2. QED
  BY <1>1, AloneInvariant, PTL

(* Without timeouts the parameter that steps read is the one of the        *)
(* innermost function in execution, and none outside of all of them.       *)
THEOREM ParametersAreScoped == Spec => []UntimedParamScoped
<1>1. IInv /\ Alone => UntimedParamScoped
  <2> SUFFICES ASSUME IInv, Alone, timed = {} PROVE ParamScoped
    BY DEF UntimedParamScoped
  <2> DEFINE s == stack[0]
             ds == FunctionsOf(s)
  <2>1. Shadows(s, param) /\ s \in Seq(Frame)
    BY AloneIs
  <2>2. \A d \in ds : d \in Nat /\ d < Len(s) + 1
    BY <2>1 DEF FunctionsOf
  <2>3. \/ ds = {} /\ param = None
        \/ \E e \in ds : param = s[e].step /\ \A o \in ds : o <= e
    BY <2>1, <2>2 DEF Shadows, InScope
  <2>4. ASSUME NEW e \in ds, \A o \in ds : o <= e
        PROVE  (CHOOSE d \in ds : \A o \in ds : o <= d) = e
    BY <2>2, <2>4
  <2>5. QED
    BY <2>3, <2>4 DEF ParamScoped, FunctionFrames
<1>2. QED
  BY <1>1, ExecutorInvariant, AloneInvariant, PTL
===============================================================================
