---- MODULE OrderEntryProofs ----
(***************************************************************************)
(* Proofs about the REST requests of an account: the download of its       *)
(* session (OrderEntry), the nonce its requests are signed with (Nonce)    *)
(* and the rate limiter that holds them back (Throttle).  Each component   *)
(* is proved about by itself.                                              *)
(***************************************************************************)
EXTENDS OrderEntry, Nonce, Throttle, TLAPS

----------------------------------------------------------------------------
(* The session *)

(* The stream status follows from the connection and the stage. *)
StatusInv ==
    /\ ~up => connection_status = "DISCONNECTED" /\ state # DONE
    /\ up => /\ state # UNDEFINED
             /\ state = TOKEN => connection_status = "DISCONNECTED"
             /\ state \in BALANCE .. OPEN_ORDERS =>
                    connection_status = "DOWNLOADING"
             /\ state = DONE => connection_status = "READY"

(* No request in flight is from the future; one that would be accepted     *)
(* over an established connection was made over that connection.           *)
InflightInv ==
    \A r \in inflight :
        /\ r.sequence \in 1 .. sequence
        /\ up /\ ~Skip(r) => r.session = session

(* Past the token stage the DropCopy exists. *)
TokenInv == state > TOKEN => drop_copy # 0

(* The inductive invariant. *)
IInv ==
    /\ TypeOK
    /\ ExactlyOnce
    /\ NeverWaitsForNothing
    /\ StatusInv
    /\ InflightInv
    /\ TokenInv

USE DEF UNDEFINED, TOKEN, BALANCE, TRADE_BALANCE, OPEN_POSITIONS, OPEN_ORDERS,
        DONE

LEMMA InitIInv == Init => IInv
  <1> SUFFICES ASSUME Init PROVE IInv
    OBVIOUS
  <1> USE DEF Init
  <1>1. TypeOK
    BY DEF TypeOK, State, ConnectionStatus
  <1>2. ExactlyOnce /\ StatusInv /\ InflightInv /\ TokenInv
    BY DEF ExactlyOnce, StatusInv, InflightInv, TokenInv
  <1>3. NeverWaitsForNothing
    BY DEF NeverWaitsForNothing, Downloading, Stage
  <1> QED
    BY <1>1, <1>2, <1>3 DEF IInv

(* Entering a stage makes a request that answers to it, the only one that  *)
(* does, of the connection given.                                          *)
LEMMA DownloadStep ==
  ASSUME NEW s \in Stage \cup {DONE}, NEW c \in Nat,
         NEW pending \in SUBSET inflight,
         TypeOK, InflightInv, Download(s, c, pending)
  PROVE  /\ state' = s
         /\ connection_status' = StatusOf(s)
         /\ retrying' = FALSE
         /\ sequence' \in Nat
         /\ inflight' \subseteq Request
         /\ \A r \in inflight' : r.sequence \in 1 .. sequence'
         /\ s # DONE => \A r \in inflight' : ~Skip(r)' => r.session = c
         /\ s # DONE => \E r \in inflight' : ~Skip(r)'
         /\ \A r \in inflight' : s = DONE => Skip(r)'
  <1>0. PICK new :
          new = [stage |-> s, sequence |-> sequence + 1, session |-> c]
    OBVIOUS
  <1>1. CASE s = DONE
    <2>1. inflight' = pending /\ sequence' = sequence
      BY <1>1 DEF Download
    <2>2. \A r \in inflight' : r \in Request /\ r.sequence \in 1 .. sequence
      BY <2>1 DEF TypeOK, InflightInv
    <2>3. \A r \in inflight' : Skip(r)'
      BY <1>1, <2>2 DEF Skip, Download, Request, Stage
    <2> QED
      BY <1>1, <2>1, <2>2, <2>3 DEF Download, TypeOK
  <1>2. CASE s # DONE
    <2>1. /\ inflight' = pending \cup {new}
          /\ sequence' = sequence + 1
          /\ state' = s
      BY <1>0, <1>2 DEF Download
    <2>2. new \in Request
      BY <1>0, <1>2 DEF Request, TypeOK
    <2>3. \A r \in pending : r \in Request /\ r.sequence \in 1 .. sequence
      BY DEF TypeOK, InflightInv
    <2>4. \A r \in pending : Skip(r)'
      BY <2>1, <2>3 DEF Skip, TypeOK
    <2>5. ~Skip(new)'
      BY <1>0, <2>1 DEF Skip
    <2> QED
      BY <1>0, <1>2, <2>1, <2>2, <2>3, <2>4, <2>5 DEF Download, TypeOK
  <1> QED
    BY <1>1, <1>2

LEMMA StatusOfType ==
  ASSUME TypeOK, NEW s
  PROVE  StatusOf(s) \in ConnectionStatus
  BY DEF TypeOK, StatusOf, ConnectionStatus

LEMMA ConnectedIInv == IInv /\ Connected => IInv'
  <1> SUFFICES ASSUME IInv, Connected PROVE IInv'
    OBVIOUS
  <1> DEFINE s == IF Downloading THEN state ELSE TOKEN
  <1>1. s \in Stage
    BY DEF Downloading, Stage
  <1>2. Download(s, session + 1, inflight)
    BY DEF Connected
  <1>3. /\ state' = s
        /\ connection_status' = StatusOf(s)
        /\ retrying' = FALSE
        /\ sequence' \in Nat
        /\ inflight' \subseteq Request
        /\ \A r \in inflight' : r.sequence \in 1 .. sequence'
        /\ \A r \in inflight' : ~Skip(r)' => r.session = session + 1
        /\ \E r \in inflight' : ~Skip(r)'
    <2>1. s \in Stage \cup {DONE} /\ s # DONE /\ session + 1 \in Nat
      BY <1>1 DEF Stage, IInv, TypeOK
    <2>2. TypeOK /\ InflightInv
      BY DEF IInv
    <2> HIDE DEF s
    <2> QED
      BY <1>2, <2>1, <2>2, DownloadStep
  <1>4. TypeOK'
    <2>1. state' \in State /\ connection_status' \in ConnectionStatus
      BY <1>1, <1>3, StatusOfType DEF IInv, State
    <2>2. answered' \in [Stage -> Nat] /\ errors' \subseteq Stage
      BY DEF Connected, IInv, TypeOK
    <2>3. up' \in BOOLEAN /\ drop_copy' \in Nat /\ session' \in Nat
      BY DEF Connected, IInv, TypeOK
    <2>4. retrying' \in BOOLEAN /\ sequence' \in Nat /\ inflight' \subseteq Request
      BY <1>3
    <2> QED
      BY <2>1, <2>2, <2>3, <2>4 DEF TypeOK
  <1>5. ExactlyOnce'
    BY <1>1, <1>3 DEF Connected, IInv, ExactlyOnce, Downloading, Stage
  <1>6. NeverWaitsForNothing'
    BY <1>3 DEF NeverWaitsForNothing
  <1>7. StatusInv'
    BY <1>1, <1>3
       DEF Connected, IInv, StatusInv, StatusOf, Downloading, Stage, TypeOK
  <1>8. InflightInv'
    BY <1>3 DEF InflightInv, Connected
  <1>9. TokenInv'
    BY <1>3 DEF Connected, IInv, TokenInv, Downloading
  <1> QED
    BY <1>4, <1>5, <1>6, <1>7, <1>8, <1>9 DEF IInv

LEMMA DisconnectedIInv == IInv /\ Disconnected => IInv'
  <1> SUFFICES ASSUME IInv, Disconnected PROVE IInv'
    OBVIOUS
  <1>1. TypeOK'
    BY DEF Disconnected, IInv, TypeOK, State, ConnectionStatus
  <1>2. ExactlyOnce'
    BY DEF Disconnected, IInv, ExactlyOnce
  <1>3. NeverWaitsForNothing'
    BY DEF Disconnected, IInv, NeverWaitsForNothing, Downloading, Skip, Stage
  <1>4. StatusInv'
    BY DEF Disconnected, IInv, StatusInv, Downloading, Stage
  <1>5. InflightInv'
    BY DEF Disconnected, IInv, InflightInv
  <1>6. TokenInv'
    BY DEF Disconnected, IInv, TokenInv, Downloading
  <1> QED
    BY <1>1, <1>2, <1>3, <1>4, <1>5, <1>6 DEF IInv

(* A refused answer: only the request goes, or a retry is asked for. *)
LEMMA RefusedIInv ==
  ASSUME IInv, NEW r \in inflight, Retry(r.stage, inflight \ {r}),
         UNCHANGED <<up, session>>
  PROVE  IInv'
  <1>1. TypeOK'
    BY DEF Retry, IInv, TypeOK
  <1>2. ExactlyOnce' /\ StatusInv' /\ TokenInv'
    BY DEF Retry, IInv, ExactlyOnce, StatusInv, TokenInv
  <1>3. NeverWaitsForNothing'
    <2> SUFFICES ASSUME Downloading, ~retrying'
                 PROVE  \E q \in inflight' : ~Skip(q)'
      BY DEF NeverWaitsForNothing, Downloading, Retry
    <2>1. r.stage # state /\ ~retrying
      BY DEF Retry
    <2>2. PICK q \in inflight : ~Skip(q)
      BY <2>1 DEF IInv, NeverWaitsForNothing
    <2>3. q # r
      BY <2>1, <2>2 DEF Skip
    <2> QED
      BY <2>2, <2>3 DEF Retry, Skip
  <1>4. InflightInv'
    BY DEF Retry, IInv, InflightInv, Skip
  <1> QED
    BY <1>1, <1>2, <1>3, <1>4 DEF IInv

(* An answer that is skipped: only the request goes. *)
LEMMA SkippedIInv ==
  ASSUME IInv, NEW r \in inflight, Skip(r), inflight' = inflight \ {r},
         UNCHANGED <<up, session, connection_status, state, sequence,
                     retrying, drop_copy, answered, errors>>
  PROVE  IInv'
  <1>1. TypeOK' /\ ExactlyOnce' /\ StatusInv' /\ TokenInv'
    BY DEF IInv, TypeOK, ExactlyOnce, StatusInv, TokenInv
  <1>2. NeverWaitsForNothing'
    BY DEF IInv, NeverWaitsForNothing, Downloading, Skip
  <1>3. InflightInv'
    BY DEF IInv, InflightInv, Skip
  <1> QED
    BY <1>1, <1>2, <1>3 DEF IInv

(* An accepted answer: its stage is complete and the next one is entered. *)
LEMMA AcceptIInv ==
  ASSUME IInv, up, NEW outcome, NEW r \in inflight, ~Skip(r),
         Accept(r, outcome, inflight \ {r}), UNCHANGED <<up, session>>
  PROVE  IInv'
  <1>1. /\ state \in Stage
        /\ r.stage = state
        /\ r.session = session
        /\ r.sequence \in Nat \ {0}
    BY DEF IInv, TypeOK, InflightInv, Skip, Request
  <1> DEFINE s == state + 1
  <1>2. /\ s \in State
        /\ s \in Stage \cup {DONE}
        /\ s > TOKEN
    BY <1>1 DEF Stage, State
  <1>3. /\ state' = s
        /\ connection_status' = StatusOf(s)
        /\ retrying' = FALSE
        /\ sequence' \in Nat
        /\ inflight' \subseteq Request
        /\ \A q \in inflight' : q.sequence \in 1 .. sequence'
        /\ s # DONE => \A q \in inflight' : ~Skip(q)' => q.session = session
        /\ s # DONE => \E q \in inflight' : ~Skip(q)'
        /\ s = DONE => \A q \in inflight' : Skip(q)'
    <2>1. TypeOK /\ InflightInv /\ session \in Nat
      BY DEF IInv, TypeOK
    <2>2. Download(s, session, inflight \ {r})
      BY DEF Accept, Check
    <2>3. inflight \ {r} \in SUBSET inflight
      OBVIOUS
    <2> HIDE DEF s
    <2> QED
      BY <1>2, <2>1, <2>2, <2>3, DownloadStep
  <1>4. TypeOK'
    <2>1. connection_status' \in ConnectionStatus
      BY <1>3, StatusOfType DEF IInv
    <2>2. answered' \in [Stage -> Nat] /\ errors' \subseteq Stage
      BY <1>1 DEF Accept, IInv, TypeOK
    <2>3. drop_copy' \in Nat
      BY <1>1 DEF Accept, TokenUpdate, IInv, TypeOK
    <2> QED
      BY <1>2, <1>3, <2>1, <2>2, <2>3 DEF IInv, TypeOK
  <1>5. ExactlyOnce'
    <2>1. \A q \in Stage : answered[q] = IF q < state THEN 1 ELSE 0
      BY <1>1 DEF IInv, ExactlyOnce, Stage
    <2>2. answered' = [answered EXCEPT ![state] = @ + 1]
      BY <1>1 DEF Accept
    <2> QED
      BY <1>1, <1>3, <2>1, <2>2 DEF ExactlyOnce, IInv, TypeOK, Stage
  <1>6. NeverWaitsForNothing'
    BY <1>3 DEF NeverWaitsForNothing, Downloading, Stage
  <1>7. StatusInv'
    BY <1>2, <1>3 DEF StatusInv, StatusOf, Stage
  <1>8. InflightInv'
    BY <1>3 DEF InflightInv
  <1>9. TokenInv'
    BY <1>1 DEF Accept, TokenUpdate, IInv, TokenInv, TypeOK, Stage
  <1> QED
    BY <1>4, <1>5, <1>6, <1>7, <1>8, <1>9 DEF IInv

LEMMA ResponseIInv ==
  ASSUME IInv, NEW r \in inflight, NEW outcome \in Outcome,
         Response(r, outcome)
  PROVE  IInv'
  <1>1. CASE Refused(r, outcome)
    BY <1>1, RefusedIInv DEF Response
  <1>2. CASE ~Refused(r, outcome) /\ Skip(r)
    <2>1. /\ inflight' = inflight \ {r}
          /\ UNCHANGED <<up, session, connection_status, state, sequence,
                         retrying, drop_copy, answered, errors>>
      BY <1>2 DEF Response
    <2> QED
      BY <1>2, <2>1, SkippedIInv
  <1>3. CASE ~Refused(r, outcome) /\ ~Skip(r)
    <2>1. up
      BY <1>3 DEF Response, Refused
    <2> QED
      BY <1>3, <2>1, AcceptIInv DEF Response
  <1> QED
    BY <1>1, <1>2, <1>3

LEMMA ReissueIInv == IInv /\ Reissue => IInv'
  <1> SUFFICES ASSUME IInv, Reissue PROVE IInv'
    OBVIOUS
  <1>1. state \in Stage /\ state # DONE /\ state \in Stage \cup {DONE}
    BY DEF Reissue, Downloading, Stage
  <1>2. /\ state' = state
        /\ connection_status' = StatusOf(state)
        /\ retrying' = FALSE
        /\ sequence' \in Nat
        /\ inflight' \subseteq Request
        /\ \A r \in inflight' : r.sequence \in 1 .. sequence'
        /\ \A r \in inflight' : ~Skip(r)' => r.session = session
        /\ \E r \in inflight' : ~Skip(r)'
    <2>1. TypeOK /\ InflightInv /\ session \in Nat
      BY DEF IInv, TypeOK
    <2>2. inflight \in SUBSET inflight
      OBVIOUS
    <2>3. Download(state, session, inflight)
      BY DEF Reissue
    <2> QED
      BY <1>1, <2>1, <2>2, <2>3, DownloadStep
  <1>3. TypeOK'
    <2>1. connection_status' \in ConnectionStatus
      BY <1>2, StatusOfType DEF IInv
    <2> QED
      BY <1>2, <2>1 DEF Reissue, IInv, TypeOK
  <1>4. ExactlyOnce' /\ TokenInv'
    BY <1>2 DEF Reissue, IInv, ExactlyOnce, TokenInv
  <1>5. NeverWaitsForNothing'
    BY <1>2 DEF NeverWaitsForNothing
  <1>6. StatusInv'
    BY <1>1, <1>2 DEF Reissue, IInv, StatusInv, StatusOf, Stage
  <1>7. InflightInv'
    BY <1>2 DEF InflightInv, Reissue
  <1> QED
    BY <1>3, <1>4, <1>5, <1>6, <1>7 DEF IInv

LEMMA StutterIInv == IInv /\ UNCHANGED vars => IInv'
  <1> SUFFICES ASSUME IInv, UNCHANGED vars PROVE IInv'
    OBVIOUS
  <1> QED
    BY DEF IInv, vars, TypeOK, ExactlyOnce, NeverWaitsForNothing, StatusInv,
           InflightInv, TokenInv, Downloading, Skip

LEMMA NextIInv == IInv /\ [Next]_vars => IInv'
  <1> SUFFICES ASSUME IInv, [Next]_vars PROVE IInv'
    OBVIOUS
  <1>1. CASE Connected
    BY <1>1, ConnectedIInv
  <1>2. CASE Disconnected
    BY <1>2, DisconnectedIInv
  <1>3. CASE Answer
    <2>1. PICK r \in inflight, outcome \in Outcome : Response(r, outcome)
      BY <1>3 DEF Answer
    <2> QED
      BY <2>1, ResponseIInv
  <1>4. CASE Reissue
    BY <1>4, ReissueIInv
  <1>5. CASE UNCHANGED vars
    BY <1>5, StutterIInv
  <1> QED
    BY <1>1, <1>2, <1>3, <1>4, <1>5 DEF Next

----------------------------------------------------------------------------
(* Theorems *)

(* The inductive invariant holds of every behaviour. *)
THEOREM Invariance == Spec => []IInv
  BY InitIInv, NextIInv, PTL DEF Spec

(* The types of OrderEntry's variables. *)
THEOREM TypeCorrect == Spec => []TypeOK
  <1>1. IInv => TypeOK
    BY DEF IInv
  <1> QED
    BY <1>1, Invariance, PTL

(* READY is reported only over an established connection and after each    *)
(* stage of the download was answered exactly once.                        *)
THEOREM ReadyCorrect == Spec => []ReadyMeansComplete
  <1>1. IInv => ReadyMeansComplete
    <2> SUFFICES ASSUME IInv, connection_status = "READY"
                 PROVE  up /\ state = DONE /\ answered = [s \in Stage |-> 1]
      BY DEF ReadyMeansComplete
    <2>1. up /\ state = DONE
      BY DEF IInv, StatusInv, TypeOK, State, Stage
    <2>2. \A s \in Stage : answered[s] = 1
      BY <2>1 DEF IInv, ExactlyOnce, Stage
    <2> QED
      BY <2>1, <2>2 DEF IInv, TypeOK
  <1> QED
    BY <1>1, Invariance, PTL

(* Each stage is handed on once per download, in order. *)
THEOREM OnceCorrect == Spec => []ExactlyOnce
  <1>1. IInv => ExactlyOnce
    BY DEF IInv
  <1> QED
    BY <1>1, Invariance, PTL

(* The download never waits for an answer that cannot come. *)
THEOREM WaitCorrect == Spec => []NeverWaitsForNothing
  <1>1. IInv => NeverWaitsForNothing
    BY DEF IInv
  <1> QED
    BY <1>1, Invariance, PTL

(* The DropCopy exists before the REST stream shows any progress. *)
THEOREM DropCopyCorrect == Spec => []DropCopyBeforeStatus
  <1>1. IInv => DropCopyBeforeStatus
    BY DEF IInv, DropCopyBeforeStatus, StatusInv, TokenInv, TypeOK, State,
           Stage
  <1> QED
    BY <1>1, Invariance, PTL

(* An answer is accepted only over the connection of its request. *)
THEOREM FreshCorrect == Spec => FreshAnswers
  <1> DEFINE Fresh == \A s \in Stage :
                answered'[s] > answered[s] =>
                    \E r \in inflight : /\ r \notin inflight'
                                        /\ r.stage = s
                                        /\ r.session = session
  <1>1. IInv /\ [Next]_vars => [Fresh]_vars
    <2> SUFFICES ASSUME IInv, [Next]_vars, NEW s \in Stage,
                        answered'[s] > answered[s]
                 PROVE  \E r \in inflight : /\ r \notin inflight'
                                            /\ r.stage = s
                                            /\ r.session = session
      OBVIOUS
    <2>1. answered \in [Stage -> Nat]
      BY DEF IInv, TypeOK
    <2>2. CASE Connected
      BY <2>1, <2>2 DEF Connected
    <2>3. CASE Disconnected \/ Reissue \/ UNCHANGED vars
      BY <2>1, <2>3 DEF Disconnected, Reissue, vars
    <2>4. CASE Answer
      <3>1. PICK r \in inflight, outcome \in Outcome : Response(r, outcome)
        BY <2>4 DEF Answer
      <3>2. ~Refused(r, outcome) /\ ~Skip(r)
        BY <2>1, <3>1 DEF Response, Retry
      <3>3. up /\ Accept(r, outcome, inflight \ {r})
        BY <3>1, <3>2 DEF Response, Refused
      <3>4. s = r.stage
        BY <2>1, <3>3 DEF Accept
      <3>5. r.session = session /\ r.stage = state /\ r.sequence \in Nat
        BY <3>2, <3>3 DEF IInv, TypeOK, Request, InflightInv, Skip
      <3>6. r \notin inflight'
        <4>1. Download(state + 1, session, inflight \ {r})
          BY <3>3 DEF Accept, Check
        <4>2. r \in inflight \ {r} \/ r.sequence = sequence + 1 \/ r \notin inflight'
          BY <4>1 DEF Download
        <4> QED
          BY <3>2, <3>5, <4>2 DEF Skip, IInv, TypeOK
      <3> QED
        BY <3>4, <3>5, <3>6
    <2> QED
      BY <2>2, <2>3, <2>4 DEF Next
  <1>2. Spec => [][Fresh]_vars
    BY <1>1, Invariance, PTL DEF Spec
  <1> QED
    BY <1>2 DEF FreshAnswers

----------------------------------------------------------------------------
(* The session implements Download. *)

(* Every step of the session is a step of the promise, or leaves both the  *)
(* status and the number of completed stages alone.                        *)
LEMMA NextImplements == IInv /\ IInv' /\ [Next]_vars => [D!Next]_D!vars
  <1> SUFFICES ASSUME IInv, IInv', [Next]_vars PROVE [D!Next]_D!vars
    OBVIOUS
  <1> USE DEF completed, D!vars, D!Next
  <1>1. state \in State /\ StatusInv /\ StatusInv'
    BY DEF IInv, TypeOK
  <1>2. CASE Connected
    <2>1. state' = (IF Downloading THEN state ELSE TOKEN)
      BY <1>2 DEF Connected, Download
    <2>2. up' /\ ~up
      BY <1>2 DEF Connected
    <2>3. CASE state \in {UNDEFINED, TOKEN}
      <3>1. state' = TOKEN
        BY <2>1, <2>3 DEF Downloading, Stage
      <3> QED
        BY <1>1, <2>2, <2>3, <3>1 DEF StatusInv
    <2>4. CASE state \in BALANCE .. OPEN_ORDERS
      <3>1. state' = state
        BY <2>1, <2>4 DEF Downloading, Stage
      <3>2. connection_status' = "DOWNLOADING"
        BY <1>1, <2>2, <2>4, <3>1 DEF StatusInv
      <3> QED
        BY <2>4, <3>1, <3>2 DEF D!Resume
    <2> QED
      BY <1>1, <2>2, <2>3, <2>4 DEF State, Stage, StatusInv
  <1>3. CASE Disconnected
    <2>1. /\ connection_status' = "DISCONNECTED"
          /\ state' = IF state \in Stage THEN state ELSE UNDEFINED
      BY <1>3 DEF Disconnected, Downloading
    <2>2. D!Lose
      BY <1>1, <2>1 DEF D!Lose, State, Stage
    <2> QED
      BY <2>2
  <1>4. CASE Answer
    <2>1. PICK r \in inflight, outcome \in Outcome : Response(r, outcome)
      BY <1>4 DEF Answer
    <2>2. CASE Refused(r, outcome) \/ Skip(r)
      BY <2>1, <2>2 DEF Response, Retry
    <2>3. CASE ~Refused(r, outcome) /\ ~Skip(r)
      <3>1. /\ up /\ up'
            /\ Accept(r, outcome, inflight \ {r})
        BY <2>1, <2>3 DEF Response, Refused
      <3>2. state \in Stage
        BY <2>3 DEF Skip, IInv, TypeOK, Request
      <3>3. state' = state + 1
        BY <3>1 DEF Accept, Check, Download
      <3>4. /\ completed < OPEN_ORDERS
            /\ completed = 0 \/ connection_status = "DOWNLOADING"
            /\ completed' = completed + 1
        BY <1>1, <3>1, <3>2, <3>3 DEF StatusInv, Stage
      <3>5. connection_status' =
                IF completed + 1 = OPEN_ORDERS THEN "READY" ELSE "DOWNLOADING"
        BY <1>1, <3>1, <3>2, <3>3 DEF StatusInv, Stage
      <3> QED
        BY <3>4, <3>5 DEF D!Complete
    <2> QED
      BY <2>2, <2>3
  <1>5. CASE Reissue
    <2>1. state' = state /\ up /\ up' /\ state \in Stage
      BY <1>5 DEF Reissue, Download, Downloading
    <2>2. connection_status' = connection_status
      BY <1>1, <2>1 DEF StatusInv, Stage
    <2> QED
      BY <2>1, <2>2
  <1>6. CASE UNCHANGED vars
    BY <1>6 DEF vars
  <1> QED
    BY <1>2, <1>3, <1>4, <1>5, <1>6 DEF Next

(* The REST session implements the promise of Download. *)
THEOREM Implementation == Spec => ImplementsDownload
  <1>1. Init => D!Init
    BY DEF Init, D!Init, completed
  <1>2. Spec => D!Init /\ [][D!Next]_D!vars
    BY <1>1, NextImplements, Invariance, PTL DEF Spec
  <1> QED
    BY <1>2 DEF ImplementsDownload, D!Spec

----------------------------------------------------------------------------
(* The nonce *)

(* Before the clock has been stepped back it is at its peak, and neither   *)
(* the nonce nor any request made is ahead of it.  The nonce of a process  *)
(* that has made a request is that of its last one.                        *)
NonceIInv ==
    /\ NonceTypeOK
    /\ SteadyClockSafe
    /\ ~stepped => realtime = peak
    /\ ~restarted => last = nonce

LEMMA NonceInitIInv == NonceInit => NonceIInv
  <1> SUFFICES ASSUME NonceInit PROVE NonceIInv
    OBVIOUS
  <1> USE DEF NonceInit
  <1>1. realtime \in Nat /\ peak = realtime
    BY NonceBounds
  <1>2. running \in BOOLEAN /\ stepped \in BOOLEAN /\ restarted \in BOOLEAN
    OBVIOUS
  <1>3. nonce <= realtime /\ last <= realtime
    BY <1>1
  <1> QED
    BY <1>1, <1>2, <1>3 DEF NonceIInv, NonceTypeOK, SteadyClockSafe

LEMMA NonceNextIInv == NonceIInv /\ [NonceNext]_nonceVars => NonceIInv'
  <1> SUFFICES ASSUME NonceIInv, [NonceNext]_nonceVars PROVE NonceIInv'
    OBVIOUS
  <1> USE DEF NonceIInv, NonceTypeOK, SteadyClockSafe
  <1>1. CASE CreateBody
    <2>1. CASE TooFarBehind
      <3>1. stepped
        BY <2>1, ThresholdAssumption DEF TooFarBehind
      <3> QED
        BY <1>1, <2>1, <3>1 DEF CreateBody
    <2>2. CASE ~TooFarBehind
      <3>1. NextNonce \in Nat /\ (~stepped => NextNonce <= realtime)
        BY DEF NextNonce
      <3> HIDE DEF SteadyClockSafe
      <3>2. NonceTypeOK'
        <4>1. running' \in BOOLEAN /\ restarted' \in BOOLEAN /\ stepped' \in BOOLEAN
          BY <1>1, <2>2 DEF CreateBody
        <4>2. /\ realtime' \in Nat /\ nonce' \in Nat /\ requests' \in Nat
              /\ last' \in Nat /\ peak' \in Nat
          BY <1>1, <2>2, <3>1 DEF CreateBody
        <4> QED
          BY <4>1, <4>2
      <3>3. SteadyClockSafe'
        BY <1>1, <2>2, <3>1 DEF CreateBody, SteadyClockSafe
      <3> QED
        BY <1>1, <3>2, <3>3 DEF CreateBody
    <2> QED
      BY <2>1, <2>2
  <1>2. CASE Restart
    BY <1>2 DEF Restart
  <1>3. CASE Advance
    BY <1>3, NonceBounds DEF Advance
  <1>4. CASE StepBack
    BY <1>4, NonceBounds DEF StepBack
  <1>5. CASE UNCHANGED nonceVars
    BY <1>5 DEF nonceVars
  <1> QED
    BY <1>1, <1>2, <1>3, <1>4, <1>5 DEF NonceNext

LEMMA NonceInvariance == NonceSpec => []NonceIInv
  BY NonceInitIInv, NonceNextIInv, PTL DEF NonceSpec

----------------------------------------------------------------------------

(* The types of Nonce's variables. *)
THEOREM NonceTypeCorrect == NonceSpec => []NonceTypeOK
  <1>1. NonceIInv => NonceTypeOK
    BY DEF NonceIInv
  <1> QED
    BY <1>1, NonceInvariance, PTL

(* A clock that has never been stepped back never ends the process, and no *)
(* request is from the future, restarts included.                          *)
THEOREM SteadyCorrect == NonceSpec => []SteadyClockSafe
  <1>1. NonceIInv => SteadyClockSafe
    BY DEF NonceIInv
  <1> QED
    BY <1>1, NonceInvariance, PTL

(* The nonce of a process never goes back, whatever the clock does. *)
THEOREM NeverReversed == NonceSpec => NonceNeverReversed
  <1> DEFINE Forward == nonce' >= nonce \/ (nonce' = 0 /\ running')
  <1>1. NonceIInv /\ [NonceNext]_nonceVars => [Forward]_nonceVars
    BY DEF NonceIInv, NonceTypeOK, NonceNext, CreateBody, NextNonce, Restart, Advance, StepBack
  <1>2. NonceSpec => [][Forward]_nonceVars
    BY <1>1, NonceInvariance, PTL DEF NonceSpec
  <1> QED
    BY <1>2 DEF NonceNeverReversed

(* The exchange sees the nonces in order over any number of restarts until *)
(* the clock is stepped back, and over any steps of the clock within one   *)
(* process.                                                                *)
THEOREM InOrder == NonceSpec => NoncesInOrder
  <1> DEFINE Ordered == last' < last => restarted /\ stepped
  <1>1. NonceIInv /\ [NonceNext]_nonceVars => [Ordered]_nonceVars
    <2> SUFFICES ASSUME NonceIInv, [NonceNext]_nonceVars, last' < last
                 PROVE  restarted /\ stepped
      OBVIOUS
    <2>1. last \in Nat /\ nonce \in Nat /\ realtime \in Nat
      BY DEF NonceIInv, NonceTypeOK
    <2>2. last' = NextNonce
      BY <2>1 DEF NonceNext, nonceVars, CreateBody, Restart, Advance, StepBack
    <2>3. NextNonce \in Nat /\ NextNonce >= nonce /\ NextNonce >= realtime
      BY <2>1 DEF NextNonce
    <2>4. nonce < last /\ realtime < last
      BY <2>1, <2>2, <2>3
    <2>5. restarted
      <3>1. ~restarted => last = nonce
        BY DEF NonceIInv
      <3>2. last # nonce
        BY <2>1, <2>4
      <3> QED
        BY <3>1, <3>2
    <2>6. stepped
      <3>1. ~stepped => last <= realtime
        BY DEF NonceIInv, SteadyClockSafe
      <3>2. ~(last <= realtime)
        BY <2>1, <2>4
      <3> QED
        BY <3>1, <3>2
    <2> QED
      BY <2>5, <2>6
  <1>2. NonceSpec => [][Ordered]_nonceVars
    BY <1>1, NonceInvariance, PTL DEF NonceSpec
  <1> QED
    BY <1>2 DEF NoncesInOrder

----------------------------------------------------------------------------
(* The rate limiter: what the headers ask for, together with the types, is *)
(* inductive as it stands.                                                 *)
ThrottleIInv == ThrottleTypeOK /\ ExhaustedSuspends

LEMMA ThrottleInitIInv == ThrottleInit => ThrottleIInv
  BY DEF ThrottleInit, ThrottleIInv, ThrottleTypeOK, ExhaustedSuspends

LEMMA ThrottleNextIInv == ThrottleIInv /\ [ThrottleNext]_throttleVars => ThrottleIInv'
<1> SUFFICES ASSUME ThrottleIInv, [ThrottleNext]_throttleVars
             PROVE  ThrottleIInv'
  OBVIOUS
<1> USE BackoffAssumption, EnabledAssumption, ThrottleBounds
    DEF ThrottleIInv, ThrottleTypeOK, ExhaustedSuspends
<1>1. CASE LimitStatus
  <2> PICK status \in (0 .. MaxLimit) \ {limit_status} :
         /\ limit_status' = status
         /\ UpdateSuspendUntil(status, limit_reset_timestamp)
    BY <1>1 DEF LimitStatus
  <2>1. CASE Enabled
    BY <1>1, <2>1 DEF LimitStatus, UpdateSuspendUntil, Later
  <2>2. CASE ~Enabled
    BY <1>1, <2>2 DEF LimitStatus, UpdateSuspendUntil
  <2> QED BY <2>1, <2>2
<1>2. CASE LimitResetTimestamp
  <2> PICK reset \in (0 .. clock + MaxAhead) \ {limit_reset_timestamp} :
         /\ limit_reset_timestamp' = reset
         /\ UpdateSuspendUntil(limit_status, reset)
    BY <1>2 DEF LimitResetTimestamp
  <2>1. CASE Enabled
    BY <1>2, <2>1 DEF LimitResetTimestamp, UpdateSuspendUntil, Later
  <2>2. CASE ~Enabled
    BY <1>2, <2>2 DEF LimitResetTimestamp, UpdateSuspendUntil
  <2> QED BY <2>1, <2>2
<1>3. CASE Forbidden
  BY <1>3 DEF Forbidden, Later
<1>4. CASE TooManyRequests
  BY <1>4 DEF TooManyRequests
<1>5. CASE Tick
  BY <1>5 DEF Tick
<1>6. CASE UNCHANGED throttleVars
  BY <1>6 DEF throttleVars
<1> QED BY <1>1, <1>2, <1>3, <1>4, <1>5, <1>6 DEF ThrottleNext

LEMMA ThrottleInvariance == ThrottleSpec => []ThrottleIInv
  BY ThrottleInitIInv, ThrottleNextIInv, PTL DEF ThrottleSpec

(* Nothing is sent before the requests that ran out are renewed. *)
THEOREM ExhaustedCorrect == ThrottleSpec => []ExhaustedSuspends
<1>1. ThrottleIInv => ExhaustedSuspends
  BY DEF ThrottleIInv
<1> QED BY <1>1, ThrottleInvariance, PTL

(* A ban ends early only by a header after which requests remain or no     *)
(* reset time is known.                                                    *)
THEOREM BanCorrect == ThrottleSpec => BanHolds
<1> DEFINE Held ==
      suspend_until >= blocked_until /\ suspend_until' < blocked_until' =>
          limit_status' > 0 \/ limit_reset_timestamp' = 0
<1>1. ThrottleIInv /\ [ThrottleNext]_throttleVars => [Held]_throttleVars
  <2> SUFFICES ASSUME ThrottleIInv, [ThrottleNext]_throttleVars,
                      suspend_until >= blocked_until,
                      suspend_until' < blocked_until'
               PROVE  limit_status' > 0 \/ limit_reset_timestamp' = 0
    OBVIOUS
  <2> USE BackoffAssumption, ThrottleBounds DEF ThrottleIInv, ThrottleTypeOK
  <2>1. CASE LimitStatus
    <3> PICK status \in (0 .. MaxLimit) \ {limit_status} :
           /\ limit_status' = status
           /\ UpdateSuspendUntil(status, limit_reset_timestamp)
      BY <2>1 DEF LimitStatus
    <3> QED BY <2>1 DEF LimitStatus, UpdateSuspendUntil, Later
  <2>2. CASE LimitResetTimestamp
    <3> PICK reset \in (0 .. clock + MaxAhead) \ {limit_reset_timestamp} :
           /\ limit_reset_timestamp' = reset
           /\ UpdateSuspendUntil(limit_status, reset)
      BY <2>2 DEF LimitResetTimestamp
    <3> QED BY <2>2 DEF LimitResetTimestamp, UpdateSuspendUntil, Later
  <2>3. CASE Forbidden
    BY <2>3 DEF Forbidden, Later
  <2>4. CASE TooManyRequests \/ Tick \/ UNCHANGED throttleVars
    BY <2>4 DEF TooManyRequests, Tick, throttleVars
  <2> QED BY <2>1, <2>2, <2>3, <2>4 DEF ThrottleNext
<1>2. ThrottleSpec => [][Held]_throttleVars
  BY <1>1, ThrottleInvariance, PTL DEF ThrottleSpec
<1> QED BY <1>2 DEF BanHolds

====
