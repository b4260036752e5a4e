-------------------------- MODULE AggregatorProofs --------------------------
(***************************************************************************)
(* The aggregator implements OnlineSignal, for any number of callers.      *)
(***************************************************************************)
EXTENDS Aggregator, TLAPS

Calling(c) == pc[c] = "callback"

\* Exactly the holder of the mutex is between Lock and Unlock.
MutexInv == \A c \in Callers : pc[c] \in {"update", "callback", "unlock"} <=> mu = c

\* last is the conjunction; the pipe lags behind it only while a callback is pending, and
\* that callback carries it.
LastInv ==
  /\ last = (imap /\ smtp)
  /\ \A c \in Callers : Calling(c) => combined[c] = last /\ pipe = ~last
  /\ (\A c \in Callers : ~Calling(c)) => pipe = last

IndInv == TypeOK /\ MutexInv /\ LastInv

LEMMA InitInd == ASSUME Init PROVE IndInv
<1>1. TypeOK
  BY DEF Init, TypeOK, Request, Components
<1>2. MutexInv
  BY NoOneAssumption DEF Init, MutexInv
<1>3. LastInv
  BY DEF Init, LastInv, Calling
<1>4. QED
  BY <1>1, <1>2, <1>3 DEF IndInv

LEMMA NextType == ASSUME TypeOK, [Next]_vars PROVE TypeOK'
<1>1. CASE UNCHANGED vars
  BY <1>1 DEF TypeOK, vars, fields, local
<1>2. CASE Next
  <2>1. PICK c \in Callers :
          (\E r \in Request : Call(c, r)) \/ Lock(c) \/ Update(c) \/ Callback(c) \/ Unlock(c)
    BY <1>2 DEF Next
  <2>2. CASE \E r \in Request : Call(c, r)
    BY <2>2 DEF TypeOK, Call, Goto, fields
  <2>3. CASE Lock(c)
    BY <2>3 DEF TypeOK, Lock, Goto, fields, local
  <2>4. CASE Update(c)
    <3>1. call[c].online \in BOOLEAN
      BY DEF TypeOK, Request
    <3>2. imap' \in BOOLEAN /\ smtp' \in BOOLEAN /\ last' \in BOOLEAN
      BY <2>4, <3>1 DEF TypeOK, Update, Assign
    <3>3. QED
      BY <2>4, <3>2 DEF TypeOK, Update, Assign, Goto
  <2>5. CASE Callback(c)
    BY <2>5 DEF TypeOK, Callback, Goto, fields, local
  <2>6. CASE Unlock(c)
    BY <2>6 DEF TypeOK, Unlock, Goto, fields, local
  <2>7. QED
    BY <2>1, <2>2, <2>3, <2>4, <2>5, <2>6
<1>3. QED
  BY <1>1, <1>2

LEMMA NextMutex == ASSUME TypeOK, MutexInv, [Next]_vars PROVE MutexInv'
<1>1. CASE UNCHANGED vars
  BY <1>1 DEF MutexInv, vars
<1>2. CASE Next
  <2>1. PICK c \in Callers :
          (\E r \in Request : Call(c, r)) \/ Lock(c) \/ Update(c) \/ Callback(c) \/ Unlock(c)
    BY <1>2 DEF Next
  <2>2. CASE \E r \in Request : Call(c, r)
    BY <2>2 DEF TypeOK, MutexInv, Call, Goto
  <2>3. CASE Lock(c)
    BY <2>3, NoOneAssumption DEF TypeOK, MutexInv, Lock, Goto
  <2>4. CASE Update(c)
    BY <2>4 DEF TypeOK, MutexInv, Update, Goto
  <2>5. CASE Callback(c)
    BY <2>5 DEF TypeOK, MutexInv, Callback, Goto
  <2>6. CASE Unlock(c)
    BY <2>6, NoOneAssumption DEF TypeOK, MutexInv, Unlock, Goto
  <2>7. QED
    BY <2>1, <2>2, <2>3, <2>4, <2>5, <2>6
<1>3. QED
  BY <1>1, <1>2

\* Nobody but the holder of the mutex has a callback to make.
LEMMA OnlyHolderCalls ==
  ASSUME MutexInv, NEW c \in Callers, pc[c] \in {"update", "callback", "unlock"},
         NEW d \in Callers, Calling(d)
  PROVE  d = c
  BY DEF MutexInv, Calling

LEMMA NextLast == ASSUME IndInv, [Next]_vars PROVE LastInv'
<1> USE DEF IndInv
<1>1. CASE UNCHANGED vars
  BY <1>1 DEF LastInv, Calling, vars, fields, local
<1>2. CASE Next
  <2>1. PICK c \in Callers :
          (\E r \in Request : Call(c, r)) \/ Lock(c) \/ Update(c) \/ Callback(c) \/ Unlock(c)
    BY <1>2 DEF Next
  <2>2. ASSUME \A d \in Callers : Calling(d)' <=> Calling(d), UNCHANGED <<fields, pipe, combined>>
        PROVE  LastInv'
    BY <2>2 DEF LastInv, fields
  <2>3. CASE \E r \in Request : Call(c, r)
    BY <2>2, <2>3 DEF TypeOK, Call, Goto, Calling
  <2>4. CASE Lock(c)
    BY <2>2, <2>4 DEF TypeOK, Lock, Goto, Calling, local
  <2>5. CASE Update(c)
    <3>1. \A d \in Callers : ~Calling(d)
      BY <2>5, OnlyHolderCalls DEF Update, Calling
    <3>2. pipe' = last
      BY <2>5, <3>1 DEF Update, LastInv
    <3>3. \A d \in Callers : Calling(d)' <=> (d = c /\ last' # last)
      BY <2>5, <3>1 DEF TypeOK, Update, Goto, Calling
    <3>4. last' = (imap' /\ smtp') /\ combined'[c] = last'
      BY <2>5 DEF TypeOK, Update, Assign
    <3>5. last \in BOOLEAN /\ last' \in BOOLEAN
      BY NextType DEF TypeOK
    <3>6. last' # last => pipe' = ~last'
      BY <3>2, <3>5
    <3>7. QED
      BY <3>2, <3>3, <3>4, <3>6 DEF LastInv
  <2>6. CASE Callback(c)
    <3>1. \A d \in Callers : ~Calling(d)'
      BY <2>6, OnlyHolderCalls DEF TypeOK, Callback, Goto, Calling
    <3>2. pipe' = last' /\ last' = (imap' /\ smtp')
      BY <2>6 DEF Callback, LastInv, Calling, fields
    <3>3. QED
      BY <3>1, <3>2 DEF LastInv
  <2>7. CASE Unlock(c)
    BY <2>2, <2>7 DEF TypeOK, Unlock, Goto, Calling, local
  <2>8. QED
    BY <2>1, <2>3, <2>4, <2>5, <2>6, <2>7
<1>3. QED
  BY <1>1, <1>2

LEMMA NextInd == IndInv /\ [Next]_vars => IndInv'
  BY NextType, NextMutex, NextLast DEF IndInv

\* The invariant of the mutex, the conjunction and the pending callback holds throughout.
THEOREM Inductive == Spec => []IndInv
  BY InitInd, NextInd, PTL DEF Spec

\* Whenever update has returned the pipe has been told imap && smtp, for any number of
\* goroutines that call SetIMAP and SetSMTP.
THEOREM PipeAgreesHolds == Spec => []PipeAgrees
<1>1. IndInv => PipeAgrees
  <2> SUFFICES ASSUME IndInv, mu = NoOne PROVE pipe = (imap /\ smtp)
    BY DEF PipeAgrees
  <2>1. \A c \in Callers : ~Calling(c)
    BY NoOneAssumption DEF IndInv, MutexInv, Calling
  <2>2. QED
    BY <2>1 DEF IndInv, LastInv
<1>2. QED
  BY <1>1, Inductive, PTL

\* The callback is made on transitions of the conjunction only.
THEOREM TransitionsOnlyHolds == Spec => TransitionsOnly
<1>1. ASSUME IndInv, Next PROVE \A c \in Callers : pc[c] = "callback" /\ pc'[c] # "callback" => pipe' # pipe
  <2> SUFFICES ASSUME NEW c \in Callers, pc[c] = "callback", pc'[c] # "callback"
               PROVE  pipe' # pipe
    OBVIOUS
  <2>1. Callback(c)
    <3>1. PICK d \in Callers :
            (\E r \in Request : Call(d, r)) \/ Lock(d) \/ Update(d) \/ Callback(d) \/ Unlock(d)
      BY <1>1 DEF Next
    <3>2. d = c
      BY <1>1, <3>1 DEF IndInv, TypeOK, Call, Lock, Update, Callback, Unlock, Goto
    <3>3. QED
      BY <3>1, <3>2 DEF Call, Lock, Update, Unlock
  <2>2. pipe' = last /\ pipe = ~last /\ last \in BOOLEAN
    BY <1>1, <2>1 DEF Callback, IndInv, LastInv, TypeOK, Calling
  <2>3. QED
    BY <2>2
<1>2. QED
  BY <1>1, Inductive, PTL DEF Spec, TransitionsOnly

-----------------------------------------------------------------------------
(* Refinement *)

imapBar == IF Pending("imap") THEN ~imap ELSE imap
smtpBar == IF Pending("smtp") THEN ~smtp ELSE smtp

\* The step of the signal, spelled out.
Step ==
  \/ \E v \in BOOLEAN : imapBar' = v /\ smtpBar' = smtpBar /\ pipe' = (v /\ smtpBar)
  \/ \E v \in BOOLEAN : smtpBar' = v /\ imapBar' = imapBar /\ pipe' = (imapBar /\ v)
  \/ UNCHANGED <<imapBar, smtpBar, pipe>>

LEMMA NonePending ==
  ASSUME \A c \in Callers : ~Calling(c)
  PROVE  imapBar = imap /\ smtpBar = smtp
  BY DEF imapBar, smtpBar, Pending, Calling

LEMMA NonePendingPrime ==
  ASSUME \A c \in Callers : ~Calling(c)'
  PROVE  imapBar' = imap' /\ smtpBar' = smtp'
  BY DEF imapBar, smtpBar, Pending, Calling

\* With one callback pending, the component it is about still has its old value.
LEMMA OnePending ==
  ASSUME NEW c \in Callers, Calling(c), \A d \in Callers : Calling(d) => d = c,
         call[c].component \in Components
  PROVE  /\ imapBar = IF call[c].component = "imap" THEN ~imap ELSE imap
         /\ smtpBar = IF call[c].component = "smtp" THEN ~smtp ELSE smtp
  BY DEF imapBar, smtpBar, Pending, Calling, Components

LEMMA OnePendingPrime ==
  ASSUME NEW c \in Callers, Calling(c)', \A d \in Callers : Calling(d)' => d = c,
         call'[c].component \in Components
  PROVE  /\ imapBar' = IF call'[c].component = "imap" THEN ~imap' ELSE imap'
         /\ smtpBar' = IF call'[c].component = "smtp" THEN ~smtp' ELSE smtp'
  BY DEF imapBar, smtpBar, Pending, Calling, Components

LEMMA SignalStep == ASSUME IndInv, [Next]_vars PROVE Step
<1> USE DEF IndInv
<1>1. CASE UNCHANGED vars
  BY <1>1 DEF Step, imapBar, smtpBar, Pending, vars, fields, local
<1>2. CASE Next
  <2>1. PICK c \in Callers :
          (\E r \in Request : Call(c, r)) \/ Lock(c) \/ Update(c) \/ Callback(c) \/ Unlock(c)
    BY <1>2 DEF Next
  <2>t. /\ imap \in BOOLEAN /\ smtp \in BOOLEAN /\ last \in BOOLEAN /\ pipe \in BOOLEAN
        /\ imap' \in BOOLEAN /\ smtp' \in BOOLEAN /\ last' \in BOOLEAN
    BY NextType DEF TypeOK
  <2>r. call[c].component \in Components /\ call[c].online \in BOOLEAN
    BY DEF TypeOK, Request
  <2>2. ASSUME \A d \in Callers : Calling(d)' <=> Calling(d),
               \A d \in Callers : Calling(d) => call'[d] = call[d],
               UNCHANGED <<fields, pipe>>
        PROVE  Step
    <3>1. (Pending("imap")' <=> Pending("imap")) /\ (Pending("smtp")' <=> Pending("smtp"))
      BY <2>2 DEF Pending, Calling
    <3>2. QED
      BY <2>2, <3>1 DEF Step, imapBar, smtpBar, fields
  <2>3. CASE \E r \in Request : Call(c, r)
    BY <2>2, <2>3 DEF TypeOK, Call, Goto, Calling
  <2>4. CASE Lock(c)
    BY <2>2, <2>4 DEF TypeOK, Lock, Goto, Calling, local
  <2>5. CASE Update(c)
    <3>1. \A d \in Callers : ~Calling(d)
      BY <2>5, OnlyHolderCalls DEF Update, Calling
    <3>2. imapBar = imap /\ smtpBar = smtp
      BY <3>1, NonePending
    <3>3. \A d \in Callers : Calling(d)' <=> (d = c /\ last' # last)
      BY <2>5, <3>1 DEF TypeOK, Update, Goto, Calling
    <3>4. pipe' = last /\ last = (imap /\ smtp) /\ last' = (imap' /\ smtp') /\ call' = call
      BY <2>5, <3>1 DEF Update, Assign, LastInv
    <3>5. (call[c].component = "imap" /\ smtp' = smtp) \/ (call[c].component = "smtp" /\ imap' = imap)
      BY <2>5, <2>r DEF Update, Assign, Components
    <3>6. CASE last' = last
      <4>1. imapBar' = imap' /\ smtpBar' = smtp'
        BY <3>3, <3>6, NonePendingPrime
      <4>2. CASE smtp' = smtp
        BY <4>1, <4>2, <3>2, <3>4, <3>6, <2>t DEF Step
      <4>3. CASE imap' = imap
        BY <4>1, <4>3, <3>2, <3>4, <3>6, <2>t DEF Step
      <4>4. QED
        BY <3>5, <4>2, <4>3
    <3>7. CASE last' # last
      <4>1. /\ imapBar' = IF call[c].component = "imap" THEN ~imap' ELSE imap'
            /\ smtpBar' = IF call[c].component = "smtp" THEN ~smtp' ELSE smtp'
        BY <3>3, <3>4, <3>7, <2>r, OnePendingPrime
      <4>2. CASE call[c].component = "imap" /\ smtp' = smtp
        <5>1. imap' = ~imap
          BY <4>2, <3>4, <3>7, <2>t
        <5>2. imapBar' = imap /\ smtpBar' = smtp
          BY <4>1, <4>2, <5>1, <2>t
        <5>3. pipe' = pipe
          BY <2>5 DEF Update
        <5>4. QED
          BY <5>2, <5>3, <3>2 DEF Step
      <4>3. CASE call[c].component = "smtp" /\ imap' = imap
        <5>1. smtp' = ~smtp
          BY <4>3, <3>4, <3>7, <2>t
        <5>2. imapBar' = imap /\ smtpBar' = smtp
          BY <4>1, <4>3, <5>1, <2>t
        <5>3. pipe' = pipe
          BY <2>5 DEF Update
        <5>4. QED
          BY <5>2, <5>3, <3>2 DEF Step
      <4>4. QED
        BY <3>5, <4>2, <4>3
    <3>8. QED
      BY <3>6, <3>7
  <2>6. CASE Callback(c)
    <3>1. Calling(c) /\ \A d \in Callers : Calling(d) => d = c
      BY <2>6, OnlyHolderCalls DEF Callback, Calling
    <3>2. \A d \in Callers : ~Calling(d)'
      BY <2>6, <3>1 DEF TypeOK, Callback, Goto, Calling
    <3>3. /\ imapBar = IF call[c].component = "imap" THEN ~imap ELSE imap
          /\ smtpBar = IF call[c].component = "smtp" THEN ~smtp ELSE smtp
      BY <3>1, <2>r, OnePending
    <3>4. imapBar' = imap /\ smtpBar' = smtp
      BY <2>6, <3>2, NonePendingPrime DEF Callback, fields
    <3>5. pipe' = (imap /\ smtp)
      BY <2>6, <3>1 DEF Callback, LastInv
    <3>6. CASE call[c].component = "imap"
      BY <3>3, <3>4, <3>5, <3>6, <2>t DEF Step
    <3>7. CASE call[c].component = "smtp"
      BY <3>3, <3>4, <3>5, <3>7, <2>t DEF Step
    <3>8. QED
      BY <3>6, <3>7, <2>r DEF Components
  <2>7. CASE Unlock(c)
    BY <2>2, <2>7 DEF TypeOK, Unlock, Goto, Calling, local
  <2>8. QED
    BY <2>1, <2>3, <2>4, <2>5, <2>6, <2>7
<1>3. QED
  BY <1>1, <1>2

\* SetIMAP and SetSMTP, called from any number of goroutines, look to the pipe interface
\* like the single steps of OnlineSignal.
THEOREM Refinement == Spec => ImplementsSignal
<1>1. Init => Signal!Init
  BY DEF Init, Signal!Init, Pending
<1>2. Step => [Signal!Next]_(Signal!sigvars)
  BY DEF Step, imapBar, smtpBar, Signal!Next, Signal!SetIMAP, Signal!SetSMTP, Signal!sigvars
<1>3. IndInv /\ [Next]_vars => [Signal!Next]_(Signal!sigvars)
  BY <1>2, SignalStep
<1>4. QED
  BY <1>1, <1>3, Inductive, PTL DEF Spec, ImplementsSignal, Signal!Spec
=============================================================================
