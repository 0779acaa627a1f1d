------------------------- MODULE TransactionProofs -------------------------
(***************************************************************************)
(* Requests that write in transactions, and pushes.                        *)
(*                                                                         *)
(* Transaction, for every set of kinds, with and without faults: a request *)
(* that has been answered holds no connection; a client that is told of    *)
(* success has everything stored, or an error went unheeded; and, if none  *)
(* panics in a transaction that writes twice, each request implements      *)
(* AtomicRequest.                                                          *)
(*                                                                         *)
(* All that the proofs know of the programs is how their frames lie        *)
(* (WellNested).  The invariant ties the state to the place the request    *)
(* has reached: inside a frame there is a session, and what the outermost  *)
(* frame has written is pending in it; outside there is none.              *)
(*                                                                         *)
(* Upload, for any set of clients, however often each of them pushes: what *)
(* is said of a push is true of the store, and a push that is under way    *)
(* ends or loses its last report.                                          *)
(***************************************************************************)
EXTENDS MCRequests, WellFoundedInduction, TLAPS

-----------------------------------------------------------------------------
(* Programs.  A frame begins at step b and ends at the deferred step e.    *)
Spans(P, b, e) ==
  /\ b \in 1 .. Len(P) /\ P[b].does = "begin"
  /\ e \in 1 .. Len(P) /\ P[e].does = "end" /\ P[e].since = b

(* Writes that the handler insists on.                                     *)
Mandatory(P, i) == P[i].does = "write" /\ P[i].onErr = "return"

StepsAreSteps(P) ==
  /\ Len(P) \in Nat
  /\ \A i \in 1 .. Len(P) :
       /\ P[i].does \in { "begin", "end", "read", "write", "call" }
       /\ P[i].onErr \in { "return", "hide", "drop", "log" }
       /\ P[i].since \in 0 .. i - 1

(* A frame has one end, and no frame that has begun can fail to end.       *)
FramesEnd(P) ==
  /\ \A e \in 1 .. Len(P) : P[e].does = "end" =>
        Spans(P, P[e].since, e) /\ P[e].onErr = "drop"
  /\ \A b \in 1 .. Len(P) : P[b].does = "begin" =>
        /\ \E e \in b + 1 .. Len(P) : Spans(P, b, e)
        /\ \/ P[b].onErr = "return" /\ P[b].since = 0
           \/ P[b].onErr = "log"
  /\ \A b, e, f \in 1 .. Len(P) : Spans(P, b, e) /\ Spans(P, b, f) => e = f

(* Of two frames one lies inside the other, or one after the other.        *)
FramesNest(P) ==
  \A b, e, c, f \in 1 .. Len(P) :
     Spans(P, b, e) /\ Spans(P, c, f) /\ b < c => f < e \/ e < c

(* What is deferred inside a frame was deferred there, or together with    *)
(* the beginning of the frame.                                             *)
DefersInside(P) ==
  \A b, e, i \in 1 .. Len(P) :
     Spans(P, b, e) /\ b < i /\ i <= e /\ P[i].since # 0 =>
        b <= P[i].since \/ P[b].since = P[i].since

(* A block that ends at an error does so inside a frame, and skips neither *)
(* the beginning of a frame nor a write that the handler insists on.       *)
LogsInside(P) ==
  \A i \in 1 .. Len(P) : P[i].onErr = "log" =>
     /\ \E b, e \in 1 .. Len(P) : Spans(P, b, e) /\ b < i /\ i < e
     /\ \A j \in i + 1 .. Len(P) : P[j].does = "begin" \/ Mandatory(P, j) =>
          \E e \in i .. j - 1 : P[e].does = "end"

(* An error that the callback does not see skips no write that the handler *)
(* insists on.                                                             *)
HidesLast(P) ==
  \A i \in 1 .. Len(P) : P[i].onErr = "hide" =>
     \A j \in i + 1 .. Len(P) : ~Mandatory(P, j)

WellNested(P) ==
  /\ StepsAreSteps(P) /\ FramesEnd(P) /\ FramesNest(P) /\ DefersInside(P)
  /\ LogsInside(P) /\ HidesLast(P)

-----------------------------------------------------------------------------
(* The invariant.  Inside(b, e): the request has begun the frame b and not *)
(* passed its end; Top(b): no other frame contains it.                     *)
Inside(b, e) == Spans(Steps, b, e) /\ b < at /\ at <= e

Top(b) == \A c, f \in 1 .. Len(Steps) : Spans(Steps, c, f) => ~(c < b /\ b < f)

Live == kind # "none" /\ answer = "none"

Idle ==
  /\ joined = {} /\ session = "none" /\ answer = "none"
  /\ ~err /\ ~told /\ ~panic /\ ~swallowed

(* Whatever has been done lies behind.                                     *)
Behind == \A i \in done \cup joined \cup pending \cup stored : i \in Nat /\ i < at

(* The frames around the request have begun; the outermost opened, the     *)
(* others joined.                                                          *)
Entered ==
  \A b, e \in 1 .. Len(Steps) :
     Inside(b, e) => b \in done /\ (b \in joined <=> ~Top(b))

(* There is a session exactly inside the frames.                           *)
Held == session # "none" <=> \E b, e \in 1 .. Len(Steps) : Inside(b, e)

(* What is stored was written before the frames around the request, what   *)
(* is pending in the outermost of them.                                    *)
Parted ==
  \A b, e \in 1 .. Len(Steps) : Inside(b, e) =>
     /\ \A i \in stored : i < b
     /\ Top(b) => \A i \in pending : b < i

(* Why a request is on its way out.                                        *)
Causes ==
  /\ err => told
  /\ told /\ ~err => \E i \in 1 .. Len(Steps) : i < at /\ Steps[i].onErr = "hide"
  /\ panic => kind \in Panics

(* A transaction that would be committed as it stands has all that the     *)
(* handler insists on, unless it panics.                                   *)
Whole ==
  session = "open" /\ ~err /\ ~panic =>
     \A b, e \in 1 .. Len(Steps) : Inside(b, e) /\ Top(b) =>
        \A i \in 1 .. Len(Steps) :
           b < i /\ i < at /\ Mandatory(Steps, i) => i \in pending

(* A request that has met no error has kept what the handler insists on.   *)
Kept ==
  ~told /\ ~panic /\ ~swallowed =>
     /\ session # "aborted"
     /\ \A i \in 1 .. Len(Steps) :
          i < at /\ Mandatory(Steps, i) => i \in stored \cup pending

Underway ==
  Behind /\ Entered /\ Held /\ Parted /\ Causes /\ Whole /\ Kept

TransactionInv ==
  /\ TypeOK /\ NothingOpen /\ Honest
  /\ kind = "none" => Idle
  /\ Live => Underway

-----------------------------------------------------------------------------
(* The programs.                                                           *)
LEMMA CreateDeploymentNests == WellNested(CreateDeployment)
<1> DEFINE P == CreateDeployment
<1>1. ASSUME NEW i \in 1 .. Len(P)
      PROVE  /\ P[i].does = IF i \in { 1, 10 } THEN "begin"
                            ELSE IF i \in { 13, 14 } THEN "end"
                            ELSE IF i \in { 2, 3, 5, 6, 8, 12 } THEN "write"
                            ELSE IF i = 7 THEN "call" ELSE "read"
             /\ P[i].onErr = IF i \in { 8, 13, 14 } THEN "drop"
                             ELSE IF i \in 10 .. 12 THEN "log" ELSE "return"
             /\ P[i].since = IF i = 14 THEN 1 ELSE IF i = 13 THEN 10
                             ELSE IF i \in 10 .. 12 THEN 3 ELSE 0
  BY DEF CreateDeployment, Begin, End, Read, Write, Kube, Step, Event
<1>2. Len(P) = 14
  BY DEF CreateDeployment, Begin, End, Read, Write, Kube, Step, Event
<1> HIDE DEF P
<1>3. \A b, e \in 1 .. 14 :
         Spans(P, b, e) <=> << b, e >> = << 1, 14 >> \/ << b, e >> = << 10, 13 >>
  BY <1>1, <1>2 DEF Spans
<1>4. StepsAreSteps(P)
  BY <1>1, <1>2 DEF StepsAreSteps
<1>5. FramesEnd(P)
  <2>1. ASSUME NEW e \in 1 .. 14, P[e].does = "end"
        PROVE  Spans(P, P[e].since, e) /\ P[e].onErr = "drop"
    BY <2>1, <1>1, <1>2, <1>3
  <2>2. ASSUME NEW b \in 1 .. 14, P[b].does = "begin"
        PROVE  \E e \in b + 1 .. 14 : Spans(P, b, e)
    <3>1. CASE b = 1
      BY <3>1, <1>3
    <3>2. CASE b = 10
      BY <3>2, <1>3
    <3> QED BY <3>1, <3>2, <2>2, <1>1, <1>2
  <2>3. ASSUME NEW b \in 1 .. 14, P[b].does = "begin"
        PROVE  \/ P[b].onErr = "return" /\ P[b].since = 0
               \/ P[b].onErr = "log"
    BY <2>3, <1>1, <1>2
  <2> QED BY <2>1, <2>2, <2>3, <1>2, <1>3 DEF FramesEnd
<1>6. FramesNest(P) /\ DefersInside(P)
  BY <1>1, <1>2, <1>3 DEF FramesNest, DefersInside
<1>7. LogsInside(P)
  <2> SUFFICES ASSUME NEW i \in 10 .. 12
               PROVE  /\ \E b, e \in 1 .. 14 : Spans(P, b, e) /\ b < i /\ i < e
                      /\ \A j \in i + 1 .. 14 :
                            P[j].does = "begin" \/ Mandatory(P, j) =>
                               \E e \in i .. j - 1 : P[e].does = "end"
    BY <1>1, <1>2 DEF LogsInside
  <2>1. Spans(P, 1, 14)
    BY <1>3
  <2>2. \A j \in i + 1 .. 14 : ~(P[j].does = "begin") /\ ~Mandatory(P, j)
    BY <1>1, <1>2 DEF Mandatory
  <2> QED BY <2>1, <2>2
<1>8. HidesLast(P)
  BY <1>1, <1>2 DEF HidesLast
<1> QED BY <1>4, <1>5, <1>6, <1>7, <1>8 DEF WellNested, P

LEMMA ProgramsNest ==
  ASSUME NEW k \in AllKinds
  PROVE  WellNested(Program(k))
<1> USE DEF Begin, End, Read, Write, Kube, Step, WellNested, StepsAreSteps, FramesEnd,
            FramesNest, DefersInside, LogsInside, HidesLast, Spans, Mandatory
<1>1. WellNested(UpdateDeployment)
  BY DEF UpdateDeployment
<1>2. WellNested(RegisterComponent)
  BY DEF RegisterComponent
<1>3. WellNested(CreateBento)
  BY DEF CreateBento
<1>4. WellNested(UpdateBento)
  BY DEF UpdateBento
<1>5. WellNested(FinishUpload)
  BY DEF FinishUpload
<1>6. WellNested(CreateCluster)
  BY DEF CreateCluster
<1>7. WellNested(CreateOrganization)
  BY DEF CreateOrganization
<1> QED
  <2> HIDE DEF WellNested
  <2> QED BY <1>1, <1>2, <1>3, <1>4, <1>5, <1>6, <1>7, CreateDeploymentNests
          DEF AllKinds, Program

-----------------------------------------------------------------------------
(* Where the request goes next.                                            *)
LEMMA LeastIs ==
  ASSUME NEW S \in SUBSET Nat, S # {}
  PROVE  Least(S) \in S /\ \A i \in S : Least(S) <= i
<1> DEFINE R == { ss \in Nat \X Nat : ss[1] < ss[2] }
<1>1. IsWellFoundedOn(R, Nat)
  BY NatLessThanWellFounded DEF OpToRel
<1>2. PICK x \in S : \A y \in S : ~(<< y, x >> \in R)
  BY <1>1, WFMin
<1>3. ASSUME NEW y \in S
      PROVE  x <= y
  <2>1. ~(y < x)
    BY <1>2
  <2> QED BY <2>1
<1> QED BY <1>3 DEF Least

(* From step i, with d done, to j: into a frame only where it begins and   *)
(* has begun, out of a frame only through its end.                         *)
Onward(i, d, j) ==
  /\ j \in i + 1 .. Len(Steps) + 1
  /\ \A b, e \in 1 .. Len(Steps) : Spans(Steps, b, e) =>
       /\ b < j /\ j <= e => b <= i /\ i < e /\ (b = i => i \in d)
       /\ b \in d /\ b <= i /\ i < e => j <= e

LEMMA StepOnward ==
  ASSUME WellNested(Steps), NEW i \in 1 .. Len(Steps), NEW d,
         Steps[i].does = "begin" => i \in d
  PROVE  Onward(i, d, i + 1)
BY DEF Onward, WellNested, StepsAreSteps, Spans

LEMMA UnwindIs ==
  ASSUME WellNested(Steps), NEW i \in 0 .. Len(Steps), NEW d
  PROVE  /\ Unwind(i, d) \in i + 1 .. Len(Steps) + 1
         /\ Unwind(i, d) # Len(Steps) + 1 => Unwind(i, d) \in Deferred(i, d)
         /\ \A j \in Deferred(i, d) : Unwind(i, d) <= j
<1> DEFINE S == Deferred(i, d) \cup { Len(Steps) + 1 }
<1>1. Len(Steps) \in Nat
  BY DEF WellNested, StepsAreSteps
<1>2. \A j \in S : j \in i + 1 .. Len(Steps) + 1
  BY <1>1 DEF Deferred
<1>3. S \in SUBSET Nat /\ S # {}
  BY <1>1, <1>2
<1>4. Unwind(i, d) = Least(S)
  BY DEF Unwind
<1> HIDE DEF S
<1>5. Unwind(i, d) \in S /\ \A j \in S : Unwind(i, d) <= j
  BY <1>3, <1>4, LeastIs
<1> QED BY <1>2, <1>5 DEF S

LEMMA UnwindOnward ==
  ASSUME WellNested(Steps), NEW i \in 1 .. Len(Steps), NEW d \in SUBSET (1 .. i),
         Steps[i].does = "begin" => i \in d \/ Steps[i].since = 0
  PROVE  Onward(i, d, Unwind(i, d))
<1> DEFINE j == Unwind(i, d)
<1>1. Len(Steps) \in Nat
  BY DEF WellNested, StepsAreSteps
<1>2. /\ j \in i + 1 .. Len(Steps) + 1
      /\ j # Len(Steps) + 1 => j \in Deferred(i, d)
      /\ \A l \in Deferred(i, d) : j <= l
  BY UnwindIs
<1> HIDE DEF j
<1> SUFFICES ASSUME NEW b \in 1 .. Len(Steps), NEW e \in 1 .. Len(Steps),
                    Spans(Steps, b, e)
             PROVE  /\ b < j /\ j <= e => b <= i /\ i < e /\ (b = i => i \in d)
                    /\ b \in d /\ b <= i /\ i < e => j <= e
  BY <1>2 DEF Onward, j
<1>3. Steps[e].since = b /\ Steps[b].does = "begin"
  BY DEF Spans
<1>4. ASSUME b \in d, i < e
      PROVE  j <= e
  <2>1. e \in Deferred(i, d)
    BY <1>1, <1>3, <1>4 DEF Deferred
  <2> QED BY <2>1, <1>2
<1>5. ASSUME b < j, j <= e
      PROVE  b <= i /\ i < e /\ (b = i => i \in d)
  <2>1. j \in Deferred(i, d)
    BY <1>1, <1>2, <1>5
  <2>2. Steps[j].since \in d /\ Steps[j].since # 0 /\ j \in 1 .. Len(Steps)
    BY <2>1 DEF Deferred
  <2>3. b <= Steps[j].since \/ Steps[b].since = Steps[j].since
    BY <1>5, <2>2 DEF WellNested, DefersInside
  <2>4. CASE b <= Steps[j].since
    <3>1. Steps[j].since \in 1 .. i
      BY <2>2
    <3>2. b <= i /\ (b = i => Steps[j].since = i)
      BY <3>1, <2>4
    <3> QED BY <3>2, <2>2, <1>1, <1>2, <1>5
  <2>5. CASE Steps[b].since = Steps[j].since
    <3>1. i < b => b \in Deferred(i, d)
      BY <2>2, <2>5 DEF Deferred
    <3>2. b <= i
      BY <3>1, <1>1, <1>2, <1>5
    <3>3. b = i => i \in d
      BY <2>2, <2>5, <1>3
    <3> QED BY <3>2, <3>3, <1>1, <1>2, <1>5
  <2> QED BY <2>3, <2>4, <2>5
<1> QED BY <1>4, <1>5

LEMMA BlockEndOnward ==
  ASSUME WellNested(Steps), NEW i \in 1 .. Len(Steps), NEW d,
         Steps[i].onErr = "log", Steps[i].does # "begin"
  PROVE  /\ Onward(i, d, BlockEnd(i))
         /\ \A j \in i + 1 .. BlockEnd(i) - 1 : ~Mandatory(Steps, j)
<1> DEFINE S == { j \in i .. Len(Steps) : Steps[j].does = "end" }
           m == BlockEnd(i)
<1>1. Len(Steps) \in Nat
  BY DEF WellNested, StepsAreSteps
<1>2. PICK b0, e0 \in 1 .. Len(Steps) : Spans(Steps, b0, e0) /\ b0 < i /\ i < e0
  BY DEF WellNested, LogsInside
<1>3. e0 \in S /\ S \in SUBSET Nat
  BY <1>1, <1>2 DEF Spans
<1>4. m \in S /\ \A j \in S : m <= j
  BY <1>3, LeastIs DEF BlockEnd
<1>5. i \notin S
  BY DEF WellNested, FramesEnd
<1> HIDE DEF m
<1>6. \A j \in i + 1 .. Len(Steps) :
         Steps[j].does = "begin" \/ Mandatory(Steps, j) => m < j
  BY <1>1, <1>4 DEF WellNested, LogsInside
<1>7. m \in i + 1 .. Len(Steps)
  BY <1>1, <1>4, <1>5
<1>8. ASSUME NEW b \in 1 .. Len(Steps), NEW e \in 1 .. Len(Steps), Spans(Steps, b, e)
      PROVE  /\ b < m /\ m <= e => b < i /\ i < e
             /\ i < e => m <= e
  <2>1. i < e => e \in S
    BY <1>1, <1>8 DEF Spans
  <2>2. i < b => m < b
    BY <1>6, <1>8, <1>1 DEF Spans
  <2>3. b # i
    BY <1>8 DEF Spans
  <2> QED BY <2>1, <2>2, <2>3, <1>1, <1>4, <1>7
<1>9. Onward(i, d, m)
  BY <1>1, <1>7, <1>8 DEF Onward
<1> QED BY <1>6, <1>7, <1>9, <1>1 DEF m

-----------------------------------------------------------------------------
(* A step of the program, as far as the frames are concerned.              *)
Moves ==
  /\ Running /\ UNCHANGED << kind, answer >>
  /\ done' \in { done, done \cup { at } }
  /\ Onward(at, done', at')

LEMMA StepsNest ==
  ASSUME TypeOK, kind # "none"
  PROVE  /\ WellNested(Steps) /\ kind \in AllKinds
         /\ Len(Steps) \in Nat /\ at \in 1 .. Len(Steps) + 1
         /\ done \subseteq 1 .. Len(Steps)
         /\ WritesOf(kind) = { i \in 1 .. Len(Steps) : Steps[i].does = "write" }
         /\ Begins(kind) = { i \in 1 .. Len(Steps) : Steps[i].does = "begin" }
<1>1. kind \in AllKinds
  BY TransactionAssumption DEF TransactionAssumption, TypeOK
<1>2. WellNested(Steps)
  BY <1>1, ProgramsNest DEF Steps
<1> QED BY <1>1, <1>2 DEF TypeOK, WellNested, StepsAreSteps, WritesOf, Begins, Steps

(* Around every place inside a frame there is an outermost frame.          *)
LEMMA OutermostFrame ==
  ASSUME WellNested(Steps), at \in Nat,
         NEW b \in 1 .. Len(Steps), NEW e \in 1 .. Len(Steps), Inside(b, e)
  PROVE  \E c, f \in 1 .. Len(Steps) : Inside(c, f) /\ Top(c)
<1> DEFINE S == { c \in 1 .. Len(Steps) : \E f \in 1 .. Len(Steps) : Inside(c, f) }
<1>1. S \in SUBSET Nat /\ S # {} /\ Len(Steps) \in Nat
  BY DEF WellNested, StepsAreSteps
<1>2. PICK c \in S : \A g \in S : c <= g
  BY <1>1, LeastIs
<1>3. PICK f \in 1 .. Len(Steps) : Inside(c, f)
  OBVIOUS
<1>4. ASSUME NEW g \in 1 .. Len(Steps), NEW h \in 1 .. Len(Steps), Spans(Steps, g, h)
      PROVE  ~(g < c /\ c < h)
  <2> SUFFICES ASSUME g < c, c < h
               PROVE  FALSE
    OBVIOUS
  <2>1. f < h
    BY <1>1, <1>3, <1>4 DEF Inside, WellNested, FramesNest
  <2>2. Inside(g, h)
    BY <2>1, <1>1, <1>3, <1>4 DEF Inside, Spans
  <2> QED BY <2>2, <1>2
<1> QED BY <1>3, <1>4 DEF Top

(* A frame opens the transaction if and only if it is an outermost one.    *)
LEMMA TopOpens ==
  ASSUME TypeOK, Underway, Running, Here.does = "begin"
  PROVE  session = "none" <=> Top(at)
<1>1. ASSUME session # "none"
      PROVE  ~Top(at)
  <2>1. PICK b, e \in 1 .. Len(Steps) : Inside(b, e)
    BY <1>1 DEF Underway, Held
  <2>2. at # e
    BY <2>1 DEF Inside, Spans, Here
  <2> QED BY <2>1, <2>2 DEF Inside, Top, Running
<1>2. ASSUME session = "none", NEW c \in 1 .. Len(Steps), NEW f \in 1 .. Len(Steps),
             Spans(Steps, c, f)
      PROVE  ~(c < at /\ at < f)
  BY <1>2 DEF Underway, Held, Inside, Running
<1> QED BY <1>1, <1>2 DEF Top

(* The frames around the request after a step.                             *)
LEMMA FramesAfter ==
  ASSUME TypeOK, Moves
  PROVE  /\ \A b, e \in 1 .. Len(Steps) : Inside(b, e)' =>
              /\ Spans(Steps, b, e) /\ b <= at /\ at < e
              /\ Inside(b, e) \/ (b = at /\ Here.does = "begin" /\ at \in done')
         /\ \A b, e \in 1 .. Len(Steps) :
              Spans(Steps, b, e) /\ b \in done' /\ b <= at /\ at < e => Inside(b, e)'
         /\ Steps' = Steps /\ \A b : Top(b)' <=> Top(b)
<1>1. Steps' = Steps
  BY DEF Moves, Steps
<1>2. Len(Steps) \in Nat /\ at \in 1 .. Len(Steps) /\ at' \in at + 1 .. Len(Steps) + 1
  BY StepsNest DEF Moves, Running, Onward
<1>3. ASSUME NEW b \in 1 .. Len(Steps), NEW e \in 1 .. Len(Steps), Inside(b, e)'
      PROVE  /\ Spans(Steps, b, e) /\ b <= at /\ at < e
             /\ Inside(b, e) \/ (b = at /\ Here.does = "begin" /\ at \in done')
  <2>1. Spans(Steps, b, e) /\ b < at' /\ at' <= e
    BY <1>1, <1>3 DEF Inside
  <2>2. b <= at /\ at < e /\ (b = at => at \in done')
    BY <2>1 DEF Moves, Onward
  <2>3. CASE b = at
    BY <2>1, <2>2, <2>3 DEF Spans, Here
  <2>4. CASE b # at
    BY <2>1, <2>2, <2>4, <1>2 DEF Inside
  <2> QED BY <2>1, <2>2, <2>3, <2>4
<1>4. ASSUME NEW b \in 1 .. Len(Steps), NEW e \in 1 .. Len(Steps),
             Spans(Steps, b, e), b \in done', b <= at, at < e
      PROVE  Inside(b, e)'
  <2>1. at' <= e
    BY <1>4 DEF Moves, Onward
  <2> QED BY <2>1, <1>1, <1>2, <1>4 DEF Inside
<1>5. \A b : Top(b)' <=> Top(b)
  BY <1>1 DEF Top
<1> QED BY <1>1, <1>3, <1>4, <1>5

(* A step that neither opens nor ends a transaction.                       *)
LEMMA FramesStay ==
  ASSUME TypeOK, Underway, Moves,
         session' = "none" <=> session = "none",
         joined' \in { joined, joined \cup { at } },
         Here.does = "begin" /\ at \in done' => session # "none" /\ at \in joined',
         Here.does # "begin" => joined' = joined,
         Here.does = "end" => ~Owns,
         pending' \in { pending, pending \cup { at } },
         stored' \in { stored, stored \cup { at } },
         pending' # pending \/ stored' # stored => Here.does = "write",
         stored' # stored => session = "none"
  PROVE  Behind' /\ Entered' /\ Held' /\ Parted'
<1> USE DEF Moves
<1>1. WellNested(Steps) /\ Len(Steps) \in Nat /\ at \in 1 .. Len(Steps)
  BY StepsNest DEF Running
<1>2. at' \in at + 1 .. Len(Steps) + 1
  BY DEF Onward
<1>3. /\ \A b, e \in 1 .. Len(Steps) : Inside(b, e)' =>
           /\ Spans(Steps, b, e) /\ b <= at /\ at < e
           /\ Inside(b, e) \/ (b = at /\ Here.does = "begin" /\ at \in done')
      /\ \A b, e \in 1 .. Len(Steps) :
           Spans(Steps, b, e) /\ b \in done' /\ b <= at /\ at < e => Inside(b, e)'
      /\ Steps' = Steps /\ \A b : Top(b)' <=> Top(b)
  BY FramesAfter
<1>4. Here.does = "begin" /\ at \in done' => ~Top(at)
  BY TopOpens
<1>5. Behind'
  <2>1. \A i \in done' \cup joined' \cup pending' \cup stored' : i \in Nat /\ i <= at
    BY <1>1 DEF Underway, Behind
  <2>2. at < at'
    BY <1>1, <1>2
  <2> QED BY <2>1, <2>2, <1>1, <1>2 DEF Behind
<1>6. Entered'
  <2> SUFFICES ASSUME NEW b \in 1 .. Len(Steps), NEW e \in 1 .. Len(Steps), Inside(b, e)'
               PROVE  b \in done' /\ (b \in joined' <=> ~Top(b))
    BY <1>3 DEF Entered
  <2>1. CASE Inside(b, e)
    <3>1. b # at
      BY <2>1, <1>1 DEF Inside
    <3> QED BY <2>1, <3>1 DEF Underway, Entered
  <2>2. CASE b = at /\ Here.does = "begin" /\ at \in done'
    BY <2>2, <1>4
  <2> QED BY <2>1, <2>2, <1>3
<1>7. Held'
  <2>1. ASSUME session # "none"
        PROVE  \E b, e \in 1 .. Len(Steps) : Inside(b, e)'
    <3>1. PICK b, e \in 1 .. Len(Steps) : Inside(b, e) /\ Top(b)
      <4>1. PICK b1, e1 \in 1 .. Len(Steps) : Inside(b1, e1)
        BY <2>1 DEF Underway, Held
      <4> QED BY <4>1, <1>1, OutermostFrame
    <3>2. b \in done /\ b \notin joined
      BY <3>1 DEF Underway, Entered
    <3>3. at # e
      BY <3>1, <3>2 DEF Inside, Spans, Owns, Here
    <3> QED BY <3>1, <3>2, <3>3, <1>1, <1>3 DEF Inside
  <2>2. ASSUME NEW b \in 1 .. Len(Steps), NEW e \in 1 .. Len(Steps), Inside(b, e)'
        PROVE  session # "none"
    BY <2>2, <1>3 DEF Underway, Held
  <2> QED BY <2>1, <2>2, <1>3 DEF Held
<1>8. Parted'
  <2> SUFFICES ASSUME NEW b \in 1 .. Len(Steps), NEW e \in 1 .. Len(Steps), Inside(b, e)'
               PROVE  /\ \A i \in stored' : i < b
                      /\ Top(b) => \A i \in pending' : b < i
    BY <1>3 DEF Parted
  <2>1. CASE Inside(b, e)
    <3>1. session # "none"
      BY <2>1 DEF Underway, Held
    <3> QED BY <2>1, <3>1, <1>1 DEF Underway, Parted, Inside
  <2>2. CASE b = at /\ Here.does = "begin" /\ at \in done'
    BY <2>2, <1>1, <1>4 DEF Underway, Behind
  <2> QED BY <2>1, <2>2, <1>3
<1> QED BY <1>5, <1>6, <1>7, <1>8

(* The beginning of an outermost frame.                                    *)
LEMMA FrameOpens ==
  ASSUME TypeOK, Underway, Moves,
         session = "none", session' # "none", Here.does = "begin", at \in done',
         UNCHANGED << joined, pending, stored >>
  PROVE  Behind' /\ Entered' /\ Held' /\ Parted'
<1> USE DEF Moves
<1>1. WellNested(Steps) /\ Len(Steps) \in Nat /\ at \in 1 .. Len(Steps)
  BY StepsNest DEF Running
<1>2. at' \in at + 1 .. Len(Steps) + 1
  BY DEF Onward
<1>3. /\ \A b, e \in 1 .. Len(Steps) : Inside(b, e)' =>
           /\ Spans(Steps, b, e) /\ b <= at /\ at < e
           /\ Inside(b, e) \/ (b = at /\ Here.does = "begin" /\ at \in done')
      /\ \A b, e \in 1 .. Len(Steps) :
           Spans(Steps, b, e) /\ b \in done' /\ b <= at /\ at < e => Inside(b, e)'
      /\ Steps' = Steps /\ \A b : Top(b)' <=> Top(b)
  BY FramesAfter
<1>4. ASSUME NEW b \in 1 .. Len(Steps), NEW e \in 1 .. Len(Steps), Inside(b, e)'
      PROVE  b = at
  <2>1. ~Inside(b, e)
    BY DEF Underway, Held
  <2> QED BY <2>1, <1>3, <1>4
<1>5. Top(at) /\ pending = {}
  BY TopOpens DEF TypeOK
<1>6. Behind'
  <2>1. \A i \in done' \cup joined' \cup pending' \cup stored' : i \in Nat /\ i <= at
    BY <1>1 DEF Underway, Behind
  <2>2. at < at'
    BY <1>1, <1>2
  <2> QED BY <2>1, <2>2, <1>1, <1>2 DEF Behind
<1>7. at \notin joined
  BY <1>1 DEF Underway, Behind
<1>8. Entered'
  BY <1>3, <1>4, <1>5, <1>7 DEF Entered
<1>9. Held'
  <2>1. PICK b \in 1 .. Len(Steps) : b = at
    BY <1>1
  <2>2. PICK e \in b + 1 .. Len(Steps) : Spans(Steps, b, e)
    BY <2>1, <1>1 DEF WellNested, FramesEnd, Here
  <2>3. e \in 1 .. Len(Steps) /\ b < e
    BY <2>2, <1>1
  <2>4. Inside(b, e)'
    BY <2>1, <2>2, <2>3, <1>1, <1>3
  <2> QED BY <2>3, <2>4, <1>3 DEF Held
<1>10. Parted'
  BY <1>1, <1>3, <1>4, <1>5 DEF Parted, Underway, Behind
<1> QED BY <1>6, <1>8, <1>9, <1>10

(* The end of an outermost frame.                                          *)
LEMMA FrameCloses ==
  ASSUME TypeOK, Underway, Moves,
         Here.does = "end", Owns, joined' = joined,
         session' = "none", pending' = {}, stored' \subseteq stored \cup pending
  PROVE  Behind' /\ Entered' /\ Held' /\ Parted'
<1> USE DEF Moves
<1>1. WellNested(Steps) /\ Len(Steps) \in Nat /\ at \in 1 .. Len(Steps)
  BY StepsNest DEF Running
<1>2. at' \in at + 1 .. Len(Steps) + 1
  BY DEF Onward
<1>3. /\ \A b, e \in 1 .. Len(Steps) : Inside(b, e)' =>
           /\ Spans(Steps, b, e) /\ b <= at /\ at < e
           /\ Inside(b, e) \/ (b = at /\ Here.does = "begin" /\ at \in done')
      /\ Steps' = Steps
  BY FramesAfter
<1>4. Behind'
  <2>1. \A i \in done' \cup joined' \cup pending' \cup stored' : i \in Nat /\ i <= at
    BY <1>1 DEF Underway, Behind
  <2>2. at < at'
    BY <1>1, <1>2
  <2> QED BY <2>1, <2>2, <1>1, <1>2 DEF Behind
<1>5. PICK b \in 1 .. Len(Steps) : Spans(Steps, b, at) /\ b = Here.since
  BY <1>1 DEF WellNested, FramesEnd, Here, Spans
<1>6. b < at
  BY <1>1, <1>5 DEF WellNested, StepsAreSteps, Here
<1>7. Top(b)
  BY <1>1, <1>5, <1>6 DEF Underway, Entered, Inside, Owns
<1>8. ASSUME NEW c \in 1 .. Len(Steps), NEW f \in 1 .. Len(Steps), Inside(c, f)'
      PROVE  FALSE
  <2>1. Spans(Steps, c, f) /\ Inside(c, f) /\ at < f
    BY <1>3, <1>8
  <2>2. c < at
    BY <2>1 DEF Inside
  <2>3. CASE c = b
    BY <2>1, <2>3, <1>1, <1>5 DEF WellNested, FramesEnd
  <2>4. CASE c < b
    BY <2>1, <2>4, <1>1, <1>6, <1>7 DEF Top
  <2>5. CASE b < c
    BY <2>1, <2>2, <2>5, <1>1, <1>5 DEF WellNested, FramesNest
  <2> QED BY <2>3, <2>4, <2>5
<1>9. Entered' /\ Parted'
  BY <1>3, <1>8 DEF Entered, Parted
<1>10. Held'
  BY <1>3, <1>8 DEF Held
<1> QED BY <1>4, <1>9, <1>10

-----------------------------------------------------------------------------
(* A step succeeds, or fails.                                              *)
LEMMA Succeeds ==
  ASSUME TypeOK, Underway, Running, Succeed, UNCHANGED << kind, answer >>
  PROVE  /\ Moves /\ done' = done \cup { at }
         /\ ~err /\ ~panic =>
              \A j \in 1 .. Len(Steps) : at < j /\ j < at' => ~Mandatory(Steps, j)
<1>1. /\ WellNested(Steps) /\ Len(Steps) \in Nat /\ at \in 1 .. Len(Steps)
      /\ done \subseteq 1 .. Len(Steps)
  BY StepsNest DEF Running
<1>2. done' = done \cup { at } /\ done' \in SUBSET (1 .. at)
  <2>1. \A i \in done : i \in 1 .. at
    BY <1>1 DEF Underway, Behind
  <2> QED BY <2>1, <1>1 DEF Succeed
<1>3. Onward(at, done', at + 1)
  BY <1>1, <1>2, StepOnward
<1>4. Onward(at, done', Unwind(at, done'))
  BY <1>1, <1>2, UnwindOnward
<1>5. Moves
  BY <1>2, <1>3, <1>4 DEF Moves, Succeed
<1>6. ASSUME ~err, ~panic, NEW j \in 1 .. Len(Steps), at < j, j < at'
      PROVE  ~Mandatory(Steps, j)
  <2>1. CASE told
    <3>1. PICK i \in 1 .. Len(Steps) : i < at /\ Steps[i].onErr = "hide"
      BY <2>1, <1>6 DEF Underway, Causes
    <3>2. j \in i + 1 .. Len(Steps)
      BY <3>1, <1>1, <1>6
    <3> QED BY <3>1, <3>2, <1>1 DEF WellNested, HidesLast
  <2>2. CASE ~told
    <3>1. at' = at + 1
      BY <2>2, <1>6 DEF Succeed
    <3> QED BY <3>1, <1>1, <1>6
  <2> QED BY <2>1, <2>2
<1> QED BY <1>2, <1>5, <1>6

LEMMA Fails ==
  ASSUME TypeOK, Underway, Running, Fail, UNCHANGED << kind, answer >>,
         Here.does # "end", Here.does = "begin" => session = "none"
  PROVE  /\ Moves /\ done' = done /\ panic' = panic
         /\ err' \in BOOLEAN /\ told' \in BOOLEAN
         /\ (err => err') /\ (told => told') /\ (err' => told')
         /\ told' /\ ~err' =>
              \E i \in 1 .. Len(Steps) : i < at' /\ Steps[i].onErr = "hide"
         /\ ~err' =>
              /\ ~Mandatory(Steps, at)
              /\ \A j \in 1 .. Len(Steps) : at < j /\ j < at' => ~Mandatory(Steps, j)
         /\ ~told' => Here.onErr \in { "drop", "log" }
<1>1. /\ WellNested(Steps) /\ Len(Steps) \in Nat /\ at \in 1 .. Len(Steps)
      /\ done \subseteq 1 .. Len(Steps)
  BY StepsNest DEF Running
<1>2. done' = done /\ panic' = panic /\ done \in SUBSET (1 .. at)
  <2>1. \A i \in done : i \in 1 .. at
    BY <1>1 DEF Underway, Behind
  <2> QED BY <2>1 DEF Fail
<1>3. Here.does = "begin" => Here.onErr = "return" /\ Here.since = 0
  <2> SUFFICES ASSUME Here.does = "begin"
               PROVE  Here.onErr # "log"
    BY <1>1 DEF WellNested, FramesEnd, Here
  <2>1. \A b, e \in 1 .. Len(Steps) : ~Inside(b, e)
    BY DEF Underway, Held
  <2>2. \A b, e \in 1 .. Len(Steps) : Spans(Steps, b, e) => ~(b < at /\ at < e)
    BY <2>1, <1>1 DEF Inside
  <2> QED BY <2>2, <1>1 DEF WellNested, LogsInside, Here
<1>4. Onward(at, done', Unwind(at, done))
  BY <1>1, <1>2, <1>3, UnwindOnward DEF Here
<1>5. CASE Here.onErr = "return"
  <2>1. err' = TRUE /\ told' = TRUE /\ at' = Unwind(at, done)
    BY <1>5 DEF Fail
  <2> QED BY <2>1, <1>2, <1>4 DEF Moves
<1>6. CASE Here.onErr = "hide"
  <2>1. err' = err /\ told' = TRUE /\ at' = Unwind(at, done)
    BY <1>6 DEF Fail
  <2>2. Moves
    BY <2>1, <1>2, <1>4 DEF Moves
  <2>3. at < at'
    BY <2>2, <1>1 DEF Moves, Onward
  <2>4. \A j \in 1 .. Len(Steps) : at < j => j \in at + 1 .. Len(Steps)
    BY <1>1
  <2>5. \A j \in 1 .. Len(Steps) : at < j => ~Mandatory(Steps, j)
    BY <2>4, <1>1, <1>6 DEF WellNested, HidesLast, Here
  <2>6. ~Mandatory(Steps, at)
    BY <1>6 DEF Mandatory, Here
  <2> QED BY <2>1, <2>2, <2>3, <2>5, <2>6, <1>1, <1>2, <1>6 DEF Here, TypeOK
<1>7. CASE Here.onErr = "drop"
  <2>1. err' = err /\ told' = told /\ at' = at + 1
    BY <1>7 DEF Fail
  <2>2. Onward(at, done', at')
    BY <2>1, <1>1, <1>3, <1>7, StepOnward DEF Here
  <2>3. Moves
    BY <2>2, <1>2 DEF Moves
  <2>4. ~Mandatory(Steps, at)
    BY <1>7 DEF Mandatory, Here
  <2> QED BY <2>1, <2>3, <2>4, <1>1, <1>2, <1>7 DEF TypeOK, Underway, Causes
<1>8. CASE Here.onErr = "log"
  <2>1. err' = err /\ told' = told /\ at' = BlockEnd(at)
    BY <1>8 DEF Fail
  <2>2. /\ Onward(at, done', at')
        /\ \A j \in at + 1 .. BlockEnd(at) - 1 : ~Mandatory(Steps, j)
    BY <2>1, <1>1, <1>3, <1>8, BlockEndOnward DEF Here
  <2>3. Moves
    BY <2>2, <1>2 DEF Moves
  <2>4. ~Mandatory(Steps, at)
    BY <1>8 DEF Mandatory, Here
  <2>5. BlockEnd(at) \in Nat /\ at < BlockEnd(at)
    BY <2>1, <2>2, <1>1 DEF Onward
  <2>6. \A j \in 1 .. Len(Steps) : at < j /\ j < BlockEnd(at) => ~Mandatory(Steps, j)
    BY <2>2, <2>5, <1>1
  <2> QED BY <2>1, <2>3, <2>4, <2>5, <2>6, <1>1, <1>2, <1>8 DEF TypeOK, Underway, Causes
<1>9. Here.onErr \in { "return", "hide", "drop", "log" }
  BY <1>1 DEF WellNested, StepsAreSteps, Here
<1> QED BY <1>5, <1>6, <1>7, <1>8, <1>9

-----------------------------------------------------------------------------
(* What a step leaves of the invariant, whichever it is.                   *)
LEMMA TypesAfter ==
  ASSUME TypeOK, Moves,
         err' \in BOOLEAN, told' \in BOOLEAN, panic' \in BOOLEAN, swallowed' \in BOOLEAN,
         session' \in { "none", "open", "aborted" }, session' = "none" => pending' = {},
         joined' \in { joined, joined \cup { at } },
         joined' # joined => Here.does = "begin",
         \A i \in pending' \cup stored' :
            i \in pending \cup stored \/ (i = at /\ Here.does = "write")
  PROVE  TypeOK'
<1> USE DEF Moves
<1>1. /\ Len(Steps) \in Nat /\ at \in 1 .. Len(Steps)
      /\ WritesOf(kind) = { i \in 1 .. Len(Steps) : Steps[i].does = "write" }
      /\ Begins(kind) = { i \in 1 .. Len(Steps) : Steps[i].does = "begin" }
  BY StepsNest DEF Running
<1>2. Steps' = Steps /\ kind' = kind /\ kind # "none" /\ answer' = "none"
  BY DEF Steps, Running
<1>3. done \subseteq 1 .. Len(Steps) /\ joined \subseteq Begins(kind)
      /\ pending \subseteq WritesOf(kind) /\ stored \subseteq WritesOf(kind)
  BY <1>2 DEF TypeOK
<1>4. at' \in 1 .. Len(Steps) + 1
  BY <1>1 DEF Onward
<1>5. done' \subseteq 1 .. Len(Steps) /\ joined' \subseteq Begins(kind)
  BY <1>1, <1>3 DEF Here
<1>6. pending' \subseteq WritesOf(kind) /\ stored' \subseteq WritesOf(kind)
  BY <1>1, <1>3 DEF Here
<1>7. kind \in Kinds \cup { "none" }
  BY DEF TypeOK
<1> QED BY <1>2, <1>4, <1>5, <1>6, <1>7 DEF TypeOK

LEMMA WritesAfter ==
  ASSUME TypeOK, Underway, Moves,
         err => err', told => told', panic => panic', swallowed => swallowed', err' => told',
         session' = "open" => session # "aborted" /\ pending \subseteq pending',
         ~err' /\ ~panic' =>
           \A j \in 1 .. Len(Steps) : at < j /\ j < at' => ~Mandatory(Steps, j),
         ~err' /\ ~panic' /\ session' = "open" /\ Mandatory(Steps, at) => at \in pending',
         ~told' /\ ~panic' /\ ~swallowed' /\ session # "aborted" =>
           /\ session' # "aborted" /\ stored \cup pending \subseteq stored' \cup pending'
           /\ Mandatory(Steps, at) => at \in stored' \cup pending'
  PROVE  Whole' /\ Kept'
<1>1. Len(Steps) \in Nat /\ at \in 1 .. Len(Steps) /\ at' \in at + 1 .. Len(Steps) + 1
  BY StepsNest DEF Moves, Onward, Running
<1>2. /\ \A b, e \in 1 .. Len(Steps) : Inside(b, e)' =>
           Inside(b, e) \/ (b = at /\ Here.does = "begin" /\ at \in done')
      /\ Steps' = Steps /\ \A b : Top(b)' <=> Top(b)
  BY FramesAfter
<1>3. ASSUME NEW i \in 1 .. Len(Steps), i < at'
      PROVE  i < at \/ i = at \/ (at < i /\ i < at')
  BY <1>1, <1>3
<1>4. Whole'
  <2> SUFFICES ASSUME session' = "open", ~err', ~panic',
                      NEW b \in 1 .. Len(Steps), NEW e \in 1 .. Len(Steps),
                      Inside(b, e)', Top(b),
                      NEW i \in 1 .. Len(Steps), b < i, i < at', Mandatory(Steps, i)
               PROVE  i \in pending'
    BY <1>2 DEF Whole
  <2>1. i < at \/ i = at
    BY <1>3
  <2>2. CASE i = at
    BY <2>2
  <2>3. CASE i < at
    <3>1. Inside(b, e)
      BY <2>3, <1>1, <1>2
    <3>2. session = "open"
      BY <3>1 DEF Underway, Held, TypeOK
    <3> QED BY <2>3, <3>1, <3>2 DEF Underway, Whole
  <2> QED BY <2>1, <2>2, <2>3
<1>5. Kept'
  <2> SUFFICES ASSUME ~told', ~panic', ~swallowed'
               PROVE  /\ session' # "aborted"
                      /\ \A i \in 1 .. Len(Steps) :
                           i < at' /\ Mandatory(Steps, i) => i \in stored' \cup pending'
    BY <1>2 DEF Kept
  <2>1. /\ session # "aborted"
        /\ \A i \in 1 .. Len(Steps) :
              i < at /\ Mandatory(Steps, i) => i \in stored \cup pending
    BY DEF Underway, Kept
  <2>2. /\ session' # "aborted" /\ stored \cup pending \subseteq stored' \cup pending'
        /\ Mandatory(Steps, at) => at \in stored' \cup pending'
    BY <2>1
  <2>3. ~err'
    OBVIOUS
  <2> QED BY <2>1, <2>2, <2>3, <1>3
<1> QED BY <1>4, <1>5

LEMMA CausesStay ==
  ASSUME TypeOK, Underway, Moves, UNCHANGED outcome
  PROVE  Causes'
<1>1. Steps' = Steps /\ \A i \in 1 .. Len(Steps) : i < at => i < at'
  BY FramesAfter, StepsNest DEF Moves, Onward, Running
<1> QED BY <1>1 DEF Underway, Causes, outcome, Moves

LEMMA InvAfter ==
  ASSUME TransactionInv, Moves, TypeOK', Behind', Entered', Held', Parted', Causes',
         Whole', Kept'
  PROVE  TransactionInv'
<1>1. answer' = "none" /\ kind' # "none"
  BY DEF Moves, Running
<1> QED BY <1>1 DEF TransactionInv, NothingOpen, Honest, Underway

-----------------------------------------------------------------------------
(* The actions keep the invariant.                                         *)
LEMMA StartTransactionKeeps == TransactionInv /\ StartTransaction => TransactionInv'
<1> SUFFICES ASSUME TransactionInv, StartTransaction
             PROVE  TransactionInv'
  OBVIOUS
<1>1. TypeOK /\ Underway /\ Running /\ Here.does = "begin"
  BY DEF TransactionInv, Live, Running, StartTransaction
<1>2. /\ Moves /\ done' = done \cup { at }
      /\ ~err /\ ~panic =>
           \A j \in 1 .. Len(Steps) : at < j /\ j < at' => ~Mandatory(Steps, j)
  BY <1>1, Succeeds DEF StartTransaction
<1>3. ~Mandatory(Steps, at)
  BY <1>1 DEF Mandatory, Here
<1>4. Behind' /\ Entered' /\ Held' /\ Parted'
  <2>1. CASE session = "none"
    <3>1. session' # "none" /\ UNCHANGED << joined, pending, stored >>
      BY <2>1 DEF StartTransaction
    <3> QED BY <2>1, <3>1, <1>1, <1>2, FrameOpens
  <2>2. CASE session # "none"
    <3>1. session' = session /\ joined' = joined \cup { at } /\ UNCHANGED << pending, stored >>
      BY <2>2 DEF StartTransaction
    <3> QED BY <2>2, <3>1, <1>1, <1>2, FramesStay
  <2> QED BY <2>1, <2>2
<1>5. TypeOK'
  BY <1>1, <1>2, TypesAfter DEF StartTransaction, outcome, TypeOK
<1>6. Causes'
  BY <1>1, <1>2, CausesStay DEF StartTransaction
<1>7. Whole' /\ Kept'
  BY <1>1, <1>2, <1>3, WritesAfter DEF StartTransaction, outcome, Underway, Causes, TypeOK
<1> QED BY <1>2, <1>4, <1>5, <1>6, <1>7, InvAfter

LEMMA StatementKeeps == TransactionInv /\ Statement => TransactionInv'
<1> SUFFICES ASSUME TransactionInv, Statement
             PROVE  TransactionInv'
  OBVIOUS
<1>1. TypeOK /\ Underway /\ Running /\ Here.does \in { "read", "write" }
  BY DEF TransactionInv, Live, Running, Statement
<1>2. /\ Moves /\ done' = done \cup { at }
      /\ ~err /\ ~panic =>
           \A j \in 1 .. Len(Steps) : at < j /\ j < at' => ~Mandatory(Steps, j)
  BY <1>1, Succeeds DEF Statement
<1>3. /\ Here.does = "read" => UNCHANGED << pending, stored >>
      /\ Here.does = "write" /\ session = "open" =>
           pending' = pending \cup { at } /\ stored' = stored
      /\ Here.does = "write" /\ session = "none" =>
           stored' = stored \cup { at } /\ pending' = pending
      /\ session' = session /\ session \in { "none", "open" } /\ joined' = joined
      /\ UNCHANGED << outcome, swallowed >>
  BY <1>1 DEF Statement, TypeOK
<1>4. Behind' /\ Entered' /\ Held' /\ Parted'
  BY <1>1, <1>2, <1>3, FramesStay
<1>5. TypeOK'
  BY <1>1, <1>2, <1>3, TypesAfter DEF outcome, TypeOK
<1>6. Causes'
  BY <1>1, <1>2, <1>3, CausesStay
<1>7. Mandatory(Steps, at) => Here.does = "write"
  BY DEF Mandatory, Here
<1>8. Whole' /\ Kept'
  BY <1>1, <1>2, <1>3, <1>7, WritesAfter DEF outcome, Underway, Causes
<1> QED BY <1>2, <1>4, <1>5, <1>6, <1>8, InvAfter

LEMMA ContinuesKeep == TransactionInv /\ (Call \/ LeaveJoined) => TransactionInv'
<1> SUFFICES ASSUME TransactionInv, Call \/ LeaveJoined
             PROVE  TransactionInv'
  OBVIOUS
<1>1. /\ TypeOK /\ Underway /\ Running /\ Succeed /\ UNCHANGED << kind, answer >>
      /\ Here.does = "call" \/ (Here.does = "end" /\ ~Owns)
      /\ UNCHANGED << session, joined, pending, stored, outcome, swallowed >>
  BY DEF TransactionInv, Live, Running, Call, LeaveJoined, data
<1>2. /\ Moves /\ done' = done \cup { at }
      /\ ~err /\ ~panic =>
           \A j \in 1 .. Len(Steps) : at < j /\ j < at' => ~Mandatory(Steps, j)
  BY <1>1, Succeeds
<1>3. Behind' /\ Entered' /\ Held' /\ Parted'
  BY <1>1, <1>2, FramesStay
<1>4. TypeOK'
  BY <1>1, <1>2, TypesAfter DEF outcome, TypeOK
<1>5. Causes'
  BY <1>1, <1>2, CausesStay
<1>6. ~Mandatory(Steps, at)
  BY <1>1 DEF Mandatory, Here
<1>7. Whole' /\ Kept'
  BY <1>1, <1>2, <1>6, WritesAfter DEF outcome, Underway, Causes
<1> QED BY <1>2, <1>3, <1>4, <1>5, <1>7, InvAfter

(* Whatever fails, and whether the database takes notice of it or not.     *)
LEMMA FailuresKeep ==
  TransactionInv /\ (StartFails \/ StatementFails \/ Refuse \/ CallFails) => TransactionInv'
<1> SUFFICES ASSUME TransactionInv, StartFails \/ StatementFails \/ Refuse \/ CallFails
             PROVE  TransactionInv'
  OBVIOUS
<1>1. /\ TypeOK /\ Underway /\ Running /\ Fail
      /\ Here.does \in { "begin", "read", "write", "call" }
      /\ Here.does = "begin" => session = "none"
      /\ UNCHANGED << kind, answer, joined, pending, stored >>
  BY DEF TransactionInv, Live, Running, StartFails, StatementFails, Refuse, CallFails, data
<1>2. \/ UNCHANGED << session, swallowed >> /\ Here.does # "write"
      \/ /\ session' = IF session = "none" THEN "none" ELSE "aborted"
         /\ swallowed' = (swallowed \/ Here.onErr \in { "drop", "log" })
  BY DEF StartFails, StatementFails, Refuse, CallFails, data
<1>3. /\ Moves /\ done' = done /\ panic' = panic
      /\ err' \in BOOLEAN /\ told' \in BOOLEAN
      /\ (err => err') /\ (told => told') /\ (err' => told')
      /\ told' /\ ~err' =>
           \E i \in 1 .. Len(Steps) : i < at' /\ Steps[i].onErr = "hide"
      /\ ~err' =>
           /\ ~Mandatory(Steps, at)
           /\ \A j \in 1 .. Len(Steps) : at < j /\ j < at' => ~Mandatory(Steps, j)
      /\ ~told' => Here.onErr \in { "drop", "log" }
  BY <1>1, Fails
<1>4. at \notin done
  BY <1>1 DEF Underway, Behind
<1>5. session' = "none" <=> session = "none"
  BY <1>2
<1>6. Behind' /\ Entered' /\ Held' /\ Parted'
  BY <1>1, <1>3, <1>4, <1>5, FramesStay
<1>7. TypeOK'
  BY <1>1, <1>2, <1>3, TypesAfter DEF TypeOK
<1>8. Causes'
  BY <1>1, <1>3, FramesAfter DEF Underway, Causes, Moves
<1>9. Whole' /\ Kept'
  <2>1. CASE UNCHANGED << session, swallowed >>
    BY <2>1, <1>1, <1>3, WritesAfter DEF Underway, Causes
  <2>2. CASE /\ session' = IF session = "none" THEN "none" ELSE "aborted"
             /\ swallowed' = (swallowed \/ Here.onErr \in { "drop", "log" })
    BY <2>2, <1>1, <1>3, WritesAfter DEF Underway, Causes
  <2> QED BY <2>1, <2>2, <1>2
<1> QED BY <1>3, <1>6, <1>7, <1>8, <1>9, InvAfter

LEMMA PanicKeeps == TransactionInv /\ Panic => TransactionInv'
<1> SUFFICES ASSUME TransactionInv, Panic
             PROVE  TransactionInv'
  OBVIOUS
<1>1. /\ TypeOK /\ Underway /\ Running /\ Here.since = 0 /\ ~told /\ kind \in Panics
      /\ UNCHANGED << kind, answer, session, joined, pending, stored, swallowed, done, err, told >>
      /\ panic' = TRUE /\ at' = Unwind(at - 1, done)
  BY DEF TransactionInv, Live, Running, Panic, data
<1>2. /\ WellNested(Steps) /\ Len(Steps) \in Nat /\ at \in 1 .. Len(Steps)
      /\ done \subseteq 1 .. Len(Steps)
  BY <1>1, StepsNest DEF Running
<1>3. Deferred(at - 1, done) = Deferred(at, done)
  BY <1>1, <1>2 DEF Deferred, Here
<1>4. at' = Unwind(at, done)
  BY <1>1, <1>3 DEF Unwind
<1>5. Moves
  <2>1. \A i \in done : i \in 1 .. at
    BY <1>1, <1>2 DEF Underway, Behind
  <2>2. done \in SUBSET (1 .. at)
    BY <2>1
  <2>3. Onward(at, done, Unwind(at, done))
    BY <2>2, <1>1, <1>2, UnwindOnward DEF Here
  <2> QED BY <2>3, <1>1, <1>4 DEF Moves
<1>6. Here.does = "end" => ~Owns
  BY <1>1, <1>2 DEF WellNested, FramesEnd, Spans, Here
<1>7. at \notin done
  BY <1>1, <1>2 DEF Underway, Behind
<1>8. Behind' /\ Entered' /\ Held' /\ Parted'
  BY <1>1, <1>5, <1>6, <1>7, FramesStay
<1>9. TypeOK'
  BY <1>1, <1>5, TypesAfter DEF TypeOK
<1>10. Causes'
  BY <1>1, <1>5, FramesAfter DEF Underway, Causes
<1>11. Whole' /\ Kept'
  BY <1>1 DEF Whole, Kept
<1> QED BY <1>5, <1>8, <1>9, <1>10, <1>11, InvAfter

LEMMA CommitKeeps == TransactionInv /\ Commit => TransactionInv'
<1> SUFFICES ASSUME TransactionInv, Commit
             PROVE  TransactionInv'
  OBVIOUS
<1>1. TypeOK /\ Underway /\ Running /\ Here.does = "end" /\ Owns /\ ~err
  BY DEF TransactionInv, Live, Running, Commit
<1>2. /\ Moves /\ done' = done \cup { at }
      /\ ~err /\ ~panic =>
           \A j \in 1 .. Len(Steps) : at < j /\ j < at' => ~Mandatory(Steps, j)
  BY <1>1, Succeeds DEF Commit
<1>3. /\ UNCHANGED << joined, outcome >> /\ session' = "none" /\ pending' = {}
      /\ stored' \subseteq stored \cup pending /\ swallowed' \in BOOLEAN
      /\ ~swallowed' => ~swallowed
      /\ session = "open" /\ ~swallowed' => stored' = stored \cup pending
  BY <1>1 DEF Commit, TypeOK
<1>4. Behind' /\ Entered' /\ Held' /\ Parted'
  BY <1>1, <1>2, <1>3, FrameCloses
<1>5. TypeOK'
  BY <1>1, <1>2, <1>3, TypesAfter DEF outcome, TypeOK
<1>6. Causes'
  BY <1>1, <1>2, <1>3, CausesStay
<1>7. ~Mandatory(Steps, at)
  BY <1>1 DEF Mandatory, Here
<1>8. session # "none"
  <2>1. WellNested(Steps) /\ Len(Steps) \in Nat /\ at \in 1 .. Len(Steps)
    BY <1>1, StepsNest DEF Running
  <2>2. PICK b \in 1 .. Len(Steps) : Spans(Steps, b, at) /\ b < at
    BY <1>1, <2>1 DEF WellNested, FramesEnd, StepsAreSteps, Spans, Here
  <2> QED BY <1>1, <2>1, <2>2 DEF Underway, Held, Inside
<1>9. Whole' /\ Kept'
  BY <1>1, <1>2, <1>3, <1>7, <1>8, WritesAfter DEF outcome, Underway, Causes, TypeOK
<1> QED BY <1>2, <1>4, <1>5, <1>6, <1>9, InvAfter

LEMMA RollbackKeeps == TransactionInv /\ Rollback => TransactionInv'
<1> SUFFICES ASSUME TransactionInv, Rollback
             PROVE  TransactionInv'
  OBVIOUS
<1>1. TypeOK /\ Underway /\ Running /\ Here.does = "end" /\ Owns /\ err
  BY DEF TransactionInv, Live, Running, Rollback
<1>2. /\ Moves /\ done' = done \cup { at }
      /\ ~err /\ ~panic =>
           \A j \in 1 .. Len(Steps) : at < j /\ j < at' => ~Mandatory(Steps, j)
  BY <1>1, Succeeds DEF Rollback
<1>3. /\ UNCHANGED << joined, outcome >> /\ session' = "none" /\ pending' = {}
      /\ UNCHANGED << stored, swallowed >>
  BY <1>1 DEF Rollback, TypeOK
<1>4. Behind' /\ Entered' /\ Held' /\ Parted'
  BY <1>1, <1>2, <1>3, FrameCloses
<1>5. TypeOK'
  BY <1>1, <1>2, <1>3, TypesAfter DEF outcome, TypeOK
<1>6. Causes'
  BY <1>1, <1>2, <1>3, CausesStay
<1>7. Whole' /\ Kept'
  BY <1>1, <1>3 DEF Whole, Kept, Underway, Causes, outcome
<1> QED BY <1>2, <1>4, <1>5, <1>6, <1>7, InvAfter

(* An answer is given, or will never be, when the request has passed all   *)
(* its frames or the database has rolled back.                             *)
LEMMA AnswersKeep == TransactionInv /\ (Answer \/ Crash) => TransactionInv'
<1> SUFFICES ASSUME TransactionInv, Answer \/ Crash
             PROVE  TransactionInv'
  OBVIOUS
<1>1. TypeOK /\ Underway /\ kind # "none"
  BY DEF TransactionInv, Live, Answer, Crash
<1>2. Len(Steps) \in Nat /\ at \in 1 .. Len(Steps) + 1
  BY <1>1, StepsNest
<1>3. CASE Answer
  <2>1. UNCHANGED << kind, at, done, joined, outcome, data, swallowed >>
        /\ answer' \in { "ok", "error", "lost" } /\ at > Len(Steps)
        /\ (answer' = "ok" => ~told /\ ~panic)
    BY <1>3 DEF Answer, progress
  <2>2. session = "none"
    BY <2>1, <1>1, <1>2 DEF Underway, Held, Inside
  <2>3. TypeOK' /\ NothingOpen'
    BY <2>1, <2>2, <1>1 DEF TypeOK, NothingOpen, outcome, data, Steps
  <2>4. ASSUME answer' = "ok", ~swallowed, NEW i \in WritesOf(kind) \ OptionalOf(kind)
        PROVE  i \in stored
    <3>1. i \in 1 .. Len(Steps) /\ Mandatory(Steps, i)
      BY <1>1, StepsNest DEF Mandatory, OptionalOf, Steps
    <3>2. i < at
      BY <3>1, <2>1, <1>2
    <3>3. i \in stored \cup pending
      BY <3>1, <3>2, <2>1, <2>4, <1>1 DEF Underway, Kept
    <3> QED BY <3>3, <2>2, <1>1 DEF TypeOK
  <2>5. Honest'
    <3>1. kind' = kind /\ stored' = stored /\ swallowed' = swallowed
      BY <2>1, <1>1 DEF data
    <3>2. WritesOf(kind)' = WritesOf(kind) /\ OptionalOf(kind)' = OptionalOf(kind)
      BY <3>1
    <3> QED BY <2>4, <3>1, <3>2, <1>1 DEF Honest, TypeOK
  <2> QED BY <2>1, <2>3, <2>5, <1>1 DEF TransactionInv, Live
<1>4. CASE Crash
  <2>1. UNCHANGED << kind, at, done, joined, outcome, stored, swallowed >>
        /\ answer' = "lost" /\ session' = "none" /\ pending' = {}
    BY <1>4 DEF Crash, progress
  <2> QED BY <2>1, <1>1 DEF TransactionInv, Live, TypeOK, NothingOpen, Honest, outcome, Steps
<1> QED BY <1>3, <1>4

LEMMA ReceiveKeeps == TransactionInv /\ Receive => TransactionInv'
<1> SUFFICES ASSUME TransactionInv, Receive
             PROVE  TransactionInv'
  OBVIOUS
<1>1. /\ TypeOK /\ Idle /\ kind' \in Kinds /\ kind' \in AllKinds
      /\ at = 1 /\ done = {} /\ pending = {} /\ stored = {}
      /\ UNCHANGED << at, done, joined, outcome, data, swallowed, answer >>
  BY TransactionAssumption DEF TransactionInv, TypeOK, Receive, TransactionAssumption
<1>2. kind' # "none"
  BY <1>1 DEF AllKinds
<1>3. Len(Steps') \in Nat
  BY <1>1, ProgramsNest DEF Steps, WellNested, StepsAreSteps
<1>4. TypeOK'
  BY <1>1, <1>2, <1>3 DEF TypeOK, Idle, outcome, data
<1>5. \A b, e \in 1 .. Len(Steps') : ~Inside(b, e)'
  BY <1>1 DEF Inside
<1>6. Underway'
  BY <1>1, <1>5 DEF Underway, Behind, Entered, Held, Parted, Causes, Whole, Kept, Idle,
     outcome, data
<1> QED BY <1>1, <1>2, <1>4, <1>6 DEF TransactionInv, NothingOpen, Honest, Idle

LEMMA InitTransaction == Init => TransactionInv
BY DEF Init, TransactionInv, TypeOK, NothingOpen, Honest, Idle, Live

LEMMA NextTransaction == TransactionInv /\ [Next]_vars => TransactionInv'
<1> SUFFICES ASSUME TransactionInv, [Next]_vars
             PROVE  TransactionInv'
  OBVIOUS
<1>1. CASE UNCHANGED vars
  BY <1>1 DEF vars, progress, outcome, data, TransactionInv, TypeOK, NothingOpen, Honest,
     Idle, Live, Underway, Behind, Entered, Held, Parted, Causes, Whole, Kept, Inside, Top,
     Steps
<1>2. CASE Next
  BY <1>1, <1>2, ReceiveKeeps, StartTransactionKeeps, StatementKeeps, ContinuesKeep,
     FailuresKeep, PanicKeeps, CommitKeeps, RollbackKeeps, AnswersKeep DEF Next, Answered
<1> QED BY <1>1, <1>2

(* The frames of a request, its session and its writes belong together at  *)
(* every step (startTransaction and its callback, with ProgramsNest for    *)
(* the handlers that call them).                                           *)
THEOREM TransactionInvariant == Spec => []TransactionInv
BY InitTransaction, NextTransaction, PTL DEF Spec

(* A request that has been answered has given its connection back, for     *)
(* every kind of request, whatever fails or panics (startTransaction).     *)
THEOREM NothingStaysOpen == Spec => []NothingOpen
<1>1. TransactionInv => NothingOpen
  BY DEF TransactionInv
<1> QED BY <1>1, TransactionInvariant, PTL

(* A client that is told of success has everything stored that the handler *)
(* insists on, unless an error went unheeded: for every kind of request,   *)
(* whatever panics (startTransaction's callback and the handlers that      *)
(* return, drop or log errors).                                            *)
THEOREM AnswersAreHonest == Spec => []Honest
<1>1. TransactionInv => Honest
  BY DEF TransactionInv
<1> QED BY <1>1, TransactionInvariant, PTL

-----------------------------------------------------------------------------
(* Refinement.  The units of a program are its outermost frames and the    *)
(* writes outside of all frames.                                           *)
WritesOnce(k) == \A u \in UnitsOf(k) : \A i, j \in u : i = j

LEMMA StatementIsAtomic ==
  TransactionInv /\ Statement => Abstract!Store \/ UNCHANGED << kind, stored, answer >>
<1> SUFFICES ASSUME TransactionInv, Statement, stored' # stored
             PROVE  Abstract!Store
  BY DEF Statement
<1>1. /\ TypeOK /\ Underway /\ Running /\ Here.does = "write" /\ session = "none"
      /\ stored' = stored \cup { at } /\ UNCHANGED << kind, answer >>
  BY DEF TransactionInv, Live, Running, Statement, TypeOK
<1>2. /\ Len(Steps) \in Nat /\ at \in WritesOf(kind) /\ kind \in Kinds
      /\ \A i \in WritesOf(kind) : i \in 1 .. Len(Steps)
  BY <1>1, StepsNest DEF Running, Here, TypeOK
<1>3. ASSUME NEW b \in Begins(kind)
      PROVE  at \notin Frame(kind, b)
  <2>1. b \in 1 .. Len(Steps)
    BY <1>1, StepsNest DEF Running
  <2>2. \A e \in 1 .. Len(Steps) : ~(Spans(Steps, b, e) /\ b < at /\ at < e)
    BY <2>1, <1>1, <1>2 DEF Underway, Held, Inside, Running
  <2>3. Steps[b].does = "begin"
    BY <1>3, <1>1, StepsNest DEF Running
  <2> QED BY <2>1, <2>2, <2>3 DEF Frame, Spans, Steps
<1>4. { at } \in UnitsOf(kind)
  <2>1. { j \in WritesOf(kind) :
            j = at \/ \E b \in Begins(kind) : at \in Frame(kind, b) /\ j \in Frame(kind, b) }
          = { at }
    BY <1>2, <1>3
  <2> QED BY <2>1, <1>2 DEF UnitsOf
<1>5. at \notin stored
  BY <1>1 DEF Underway, Behind
<1>6. /\ { at } \cap stored = {} /\ { at } \in SUBSET { at }
      /\ { at } \ OptionalOf(kind) \subseteq { at }
  BY <1>5
<1> QED BY <1>1, <1>2, <1>4, <1>6 DEF Abstract!Store, Running

LEMMA CommitIsAtomic ==
  ASSUME \A k \in Panics : WritesOnce(k)
  PROVE  TransactionInv /\ Commit => Abstract!Store \/ UNCHANGED << kind, stored, answer >>
<1> SUFFICES ASSUME TransactionInv, Commit, stored' # stored
             PROVE  Abstract!Store
  BY DEF Commit
<1>1. /\ TypeOK /\ Underway /\ Running /\ Here.does = "end" /\ Owns /\ ~err
      /\ session = "open" /\ stored' = stored \cup pending
      /\ UNCHANGED << kind, answer >>
  BY DEF TransactionInv, Live, Running, Commit
<1>2. /\ WellNested(Steps) /\ Len(Steps) \in Nat /\ at \in 1 .. Len(Steps)
      /\ kind \in Kinds /\ pending \subseteq WritesOf(kind)
      /\ WritesOf(kind) = { i \in 1 .. Len(Steps) : Steps[i].does = "write" }
      /\ Begins(kind) = { i \in 1 .. Len(Steps) : Steps[i].does = "begin" }
  BY <1>1, StepsNest DEF Running, TypeOK
<1>3. PICK b \in 1 .. Len(Steps) : Spans(Steps, b, at) /\ b = Here.since
  BY <1>1, <1>2 DEF WellNested, FramesEnd, Here, Spans
<1>4. b < at /\ b \in Begins(kind)
  BY <1>1, <1>2, <1>3 DEF WellNested, StepsAreSteps, Here, Spans
<1>5. Inside(b, at) /\ Top(b)
  BY <1>1, <1>2, <1>3, <1>4 DEF Underway, Entered, Inside, Owns
<1>6. PICK i \in pending : TRUE
  BY <1>1
<1>7. \A j \in pending : b < j /\ j < at
  BY <1>1, <1>2, <1>5 DEF Underway, Parted, Behind
<1> DEFINE u == { j \in WritesOf(kind) :
                    j = i \/ \E c \in Begins(kind) :
                                i \in Frame(kind, c) /\ j \in Frame(kind, c) }
<1>8. u \in UnitsOf(kind)
  BY <1>2 DEF UnitsOf
<1>9. ASSUME NEW j \in WritesOf(kind), b < j, j < at
      PROVE  j \in Frame(kind, b)
  BY <1>2, <1>3, <1>9 DEF Frame, Spans, Steps
<1>10. ASSUME NEW j \in u
       PROVE  b < j /\ j < at
  <2>1. CASE j = i
    BY <2>1, <1>7
  <2>2. CASE j # i
    <3>1. PICK c \in Begins(kind) : i \in Frame(kind, c) /\ j \in Frame(kind, c)
      BY <2>2
    <3>2. PICK f \in 1 .. Len(Steps) : Spans(Steps, c, f) /\ c < i /\ i < f
      BY <3>1, <1>2 DEF Frame, Spans, Steps
    <3>3. PICK g \in 1 .. Len(Steps) : Spans(Steps, c, g) /\ c < j /\ j < g
      BY <3>1, <1>2 DEF Frame, Spans, Steps
    <3>4. f = g /\ c \in 1 .. Len(Steps)
      BY <3>2, <3>3, <1>2 DEF WellNested, FramesEnd, Spans
    <3>5. b < i /\ i < at /\ i \in 1 .. Len(Steps)
      BY <1>2, <1>7
    <3>6. CASE c = b
      BY <3>3, <3>4, <3>6, <1>2, <1>3 DEF WellNested, FramesEnd
    <3>7. CASE b < c
      BY <3>2, <3>3, <3>4, <3>5, <3>7, <1>2, <1>3 DEF WellNested, FramesNest
    <3>8. CASE c < b
      <4>1. at < f \/ f < b
        BY <3>2, <3>4, <3>8, <1>2, <1>3 DEF WellNested, FramesNest
      <4> QED BY <4>1, <3>2, <3>4, <3>5, <3>8, <1>2, <1>4, <1>5 DEF Top
    <3> QED BY <3>4, <3>6, <3>7, <3>8, <1>2
  <2> QED BY <2>1, <2>2
<1>11. ASSUME NEW j \in WritesOf(kind), b < j, j < at
       PROVE  j \in u
  BY <1>2, <1>4, <1>7, <1>9, <1>11
<1>12. u \cap stored = {}
  <2>1. \A j \in stored : j \in Nat /\ j < b
    BY <1>1, <1>2, <1>5 DEF Underway, Parted, Behind
  <2>2. \A j \in u : b < j
    BY <1>10
  <2> QED BY <2>1, <2>2, <1>2
<1>13. pending \in SUBSET u
  BY <1>2, <1>7, <1>11
<1>14. u \ OptionalOf(kind) \subseteq pending
  <2> SUFFICES ASSUME NEW j \in u \ OptionalOf(kind)
               PROVE  j \in pending
    OBVIOUS
  <2>1. j \in 1 .. Len(Steps) /\ Mandatory(Steps, j) /\ b < j /\ j < at
    BY <1>2, <1>10 DEF Mandatory, OptionalOf, Steps
  <2>2. CASE ~panic
    BY <2>1, <2>2, <1>1, <1>2, <1>5 DEF Underway, Whole
  <2>3. CASE panic
    <3>1. i = j
      <4>1. i \in u
        BY <1>2
      <4> QED BY <4>1, <2>3, <1>1, <1>8 DEF Underway, Causes, WritesOnce, TypeOK
    <3> QED BY <3>1
  <2> QED BY <2>2, <2>3
<1> HIDE DEF u
<1> QED BY <1>1, <1>2, <1>8, <1>12, <1>13, <1>14 DEF Abstract!Store, Running

LEMMA StepsAreAtomic ==
  ASSUME \A k \in Panics : WritesOnce(k)
  PROVE  TransactionInv /\ [Next]_vars =>
           [Abstract!Receive \/ Abstract!Store \/ Abstract!Reply]_<< kind, stored, answer >>
<1> SUFFICES ASSUME TransactionInv, [Next]_vars
             PROVE  \/ Abstract!Receive \/ Abstract!Store \/ Abstract!Reply
                    \/ UNCHANGED << kind, stored, answer >>
  OBVIOUS
<1>1. CASE Receive
  BY <1>1 DEF Receive, Abstract!Receive, data
<1>2. CASE Statement
  BY <1>2, StatementIsAtomic
<1>3. CASE Commit
  BY <1>3, CommitIsAtomic
<1>4. CASE Answer \/ Crash
  <2>1. kind \in Kinds
    BY <1>4 DEF Answer, Crash, TransactionInv, TypeOK
  <2> QED BY <2>1, <1>4 DEF Answer, Crash, Abstract!Reply, progress, data
<1>5. CASE \/ StartTransaction \/ StartFails \/ StatementFails \/ Refuse \/ Call
           \/ CallFails \/ Panic \/ Rollback \/ LeaveJoined \/ Answered \/ UNCHANGED vars
  BY <1>5 DEF StartTransaction, StartFails, StatementFails, Refuse, Call, CallFails, Panic,
     Rollback, LeaveJoined, Answered, vars, progress, data
<1> QED BY <1>1, <1>2, <1>3, <1>4, <1>5 DEF Next

(* Each transaction of a request is stored at once and whole or not at     *)
(* all, for every kind of request and whichever statement fails, if only   *)
(* handlers with one write in each transaction panic: startTransaction and *)
(* its callback implement AtomicRequest.  (Its callback commits what a     *)
(* panic leaves: without the assumption a transaction is cut in two.)      *)
THEOREM RequestsAreAtomic ==
  ASSUME \A k \in Panics : WritesOnce(k)
  PROVE  Spec => Atomic
<1>1. Init => Abstract!Init
  BY DEF Init, Abstract!Init
<1> QED BY <1>1, StepsAreAtomic, TransactionInvariant, PTL DEF Spec, Atomic, Abstract!Spec

-----------------------------------------------------------------------------
(* What the argument needs of the variables' types.                        *)
Shapes ==
  /\ pushes \in [Pushers -> Nat]
  /\ route \in [Pushers -> Routes]
  /\ stage \in [Pushers -> { "idle", "open", "granted", "ended", "noting" }]
  /\ says \in [Pushers -> { "uploading", "success", "failed" }]

(* Only a client that talks to the store itself holds a URL.               *)
GrantsAreSigned == \A c \in Pushers : stage[c] = "granted" => route[c] # "proxy"

(* A push that has ended says how, and success only of a stored object.    *)
EndsKnown ==
  \A c \in Pushers : stage[c] \in { "ended", "noting" } =>
    /\ says[c] # "uploading"
    /\ says[c] = "success" => Push(c) \in put

(* "uploading" is written by a client.                                     *)
Written == status = "uploading" => by.who \in Pushers

UploadInv ==
  /\ Shapes /\ GrantsAreSigned /\ EndsKnown /\ Written
  /\ ClaimsStored /\ Settled

-----------------------------------------------------------------------------
(* The invariant holds before anything is pushed.                          *)
LEMMA UploadStarts == UploadInit => UploadInv
  BY DEF UploadInit, UploadInv, Shapes, GrantsAreSigned, EndsKnown, Written,
         ClaimsStored, Settled, Routes, Nobody

(* Every step of a push keeps it: what has ended is backed by the store    *)
(* before it is reported, and whoever wrote "uploading" last is either     *)
(* under way or among those cut off.                                       *)
LEMMA UploadStep == UploadInv /\ [UploadNext]_uploadVars => UploadInv'
<1> SUFFICES ASSUME UploadInv, [UploadNext]_uploadVars PROVE UploadInv'
  OBVIOUS
<1> USE DEF UploadInv, Shapes, GrantsAreSigned, EndsKnown, Written,
            ClaimsStored, Settled, Push, Goto, row
<1>1. ASSUME NEW c \in Pushers, NEW r \in Routes, BeginPush(c, r)
      PROVE  UploadInv'
  BY <1>1 DEF BeginPush, WriteOrLose, WriteStatus
<1>2. ASSUME NEW c \in Pushers, NEW r \in Routes, BeginPushFails(c, r)
      PROVE  UploadInv'
  BY <1>2 DEF BeginPushFails
<1>3. ASSUME NEW c \in Pushers, Grant(c)
      PROVE  UploadInv'
  BY <1>3 DEF Grant
<1>4. ASSUME NEW c \in Pushers, StoreTakes(c)
      PROVE  UploadInv'
  BY <1>4 DEF StoreTakes, Sending
<1>5. ASSUME NEW c \in Pushers, StoreFails(c)
      PROVE  UploadInv'
  BY <1>5 DEF StoreFails, Sending
<1>6. ASSUME NEW c \in Pushers, Report(c)
      PROVE  UploadInv'
  BY <1>6 DEF Report, WriteStatus
<1>7. ASSUME NEW c \in Pushers, ReportFails(c)
      PROVE  UploadInv'
  BY <1>7 DEF ReportFails
<1>8. ASSUME NEW c \in Pushers, Note(c)
      PROVE  UploadInv'
  BY <1>8 DEF Note
<1>9. ASSUME NEW c \in Pushers, NoteFails(c)
      PROVE  UploadInv'
  BY <1>9 DEF NoteFails
<1>10. ASSUME NEW c \in Pushers, Leave(c)
       PROVE  UploadInv'
  BY <1>10 DEF Leave
<1>11. CASE ServerEnds
  BY <1>11 DEF ServerEnds
<1>12. CASE UNCHANGED uploadVars
  BY <1>12 DEF uploadVars, client
<1> QED
  BY <1>1, <1>2, <1>3, <1>4, <1>5, <1>6, <1>7, <1>8, <1>9, <1>10, <1>11, <1>12
     DEF UploadNext

-----------------------------------------------------------------------------
(* Who finds "success" in the row or in an event finds the object in the   *)
(* store, for the status is only written from uploadStatus, or by a client *)
(* that knows (controllersv1/bento.go 140-237, 471-526).                   *)
THEOREM ClaimsAreStored == UploadSpec => []ClaimsStored
<1>1. UploadInv => ClaimsStored
  BY DEF UploadInv
<1> QED
  BY <1>1, UploadStarts, UploadStep, PTL DEF UploadSpec

(* No push, whatever others do meanwhile, leaves "uploading" behind unless *)
(* its own last report is lost.                                            *)
THEOREM PushesSettle == UploadSpec => []Settled
<1>1. UploadInv => Settled
  BY DEF UploadInv
<1> QED
  BY <1>1, UploadStarts, UploadStep, PTL DEF UploadSpec

-----------------------------------------------------------------------------
LEMMA RequestsAreOfBoth ==
  /\ RequestsInit => Init /\ UploadInit
  /\ [RequestsNext]_<< part, vars, uploadVars >> => [Next]_vars /\ [UploadNext]_uploadVars
<1>1. RequestsInit => Init /\ UploadInit
  BY DEF RequestsInit
<1>2. [RequestsNext]_<< part, vars, uploadVars >> => [Next]_vars /\ [UploadNext]_uploadVars
  BY DEF RequestsNext
<1> QED BY <1>1, <1>2

(* Every variable of a request and of the pushes keeps its type, whichever *)
(* kinds there are, whatever fails and however many clients push.          *)
THEOREM RequestTypes == RequestsSpec => []TypesOK
<1>1. TransactionInv => TypeOK
  BY DEF TransactionInv
<1>2. UploadInit => UploadTypeOK
  BY PushBound DEF UploadInit, UploadTypeOK, Routes
<1>3. ASSUME UploadTypeOK, [UploadNext]_uploadVars PROVE UploadTypeOK'
  BY <1>3, PushBound
  DEF UploadTypeOK, UploadNext, BeginPush, BeginPushFails, Grant, StoreTakes, StoreFails,
      Report, ReportFails, Note, NoteFails, Leave, ServerEnds, WriteOrLose, WriteStatus,
      Goto, Routes, uploadVars, client, row
<1>4. TypesOK <=> TypeOK /\ UploadTypeOK
  BY DEF TypesOK
<1> QED
  BY <1>1, <1>2, <1>3, <1>4, RequestsAreOfBoth, InitTransaction, NextTransaction, PTL
  DEF RequestsSpec
=============================================================================
