------------------------ MODULE ChargingSession_proof ------------------------
(***************************************************************************)
(* Proofs about ChargingSession, for every set of chargers, connections,   *)
(* sessions and every bound.  The billing argument is in BillingInv: the   *)
(* conditional UPDATE of StopTransaction elects at most one handler per    *)
(* session (OneSettler), that handler finds the row completed and unbilled, *)
(* and nobody may touch the row any more until it has inserted the CDR.    *)
(* For chargers with one connection each (OneLoopPerCharger) it is also    *)
(* proved that events and live state follow the session (NewsInv), that a  *)
(* session is billed the difference of its readings (MeterInv) and that a  *)
(* driver's receipt is of the driver's own session (ReceiptInv).           *)
(***************************************************************************)
EXTENDS ChargingSession, TLAPS

\* session_energy never leaves the range of a register.
LEMMA SessionEnergyType ==
    ASSUME NEW reg \in Energies, NEW start \in Energies
    PROVE  SessionEnergy(reg, start) \in Energies
  BY BoundsAssumption DEF SessionEnergy, Energies

-----------------------------------------------------------------------------
(* Types *)

\* The initial state is well typed.
LEMMA TypeInit == Init => TypeOK
  <1> SUFFICES ASSUME Init PROVE TypeOK
    OBVIOUS
  <1> USE BoundsAssumption, LoopsAssumption DEF Init, Energies
  <1>1. session \in [Sessions -> Rows] BY DEF AbsentRow, Rows
  <1>2. cdrs \in [Sessions -> Seq(Energies)] OBVIOUS
  <1>3. public \in [Publics -> PublicRows] BY DEF PublicRows
  <1>4. ctx \in [Loops -> Locals] BY DEF Locals, NoLocals
  <1>5. pc \in [Loops -> Steps] BY DEF Steps
  <1>6. QED BY <1>1, <1>2, <1>3, <1>4, <1>5 DEF TypeOK

\* Changing one local variable of a handler keeps its locals well typed.
LEMMA LocalsUpdate ==
    ASSUME TypeOK, NEW l \in Loops
    PROVE  /\ \A s \in Sessions : [ctx[l] EXCEPT !.s = s] \in Locals
           /\ \A txn \in 0..MaxTxn : [ctx[l] EXCEPT !.txn = txn] \in Locals
           /\ \A e \in Energies : [ctx[l] EXCEPT !.energy = e] \in Locals
  <1>1. ctx[l] \in Locals BY DEF TypeOK
  <1>2. \A r \in Locals :
          /\ \A s \in Sessions : [r EXCEPT !.s = s] \in Locals
          /\ \A txn \in 0..MaxTxn : [r EXCEPT !.txn = txn] \in Locals
          /\ \A e \in Energies : [r EXCEPT !.energy = e] \in Locals
    BY DEF Locals
  <1>3. QED BY <1>1, <1>2

\* Going to a step, or finishing, keeps the control variables well typed.
LEMMA ControlType ==
    ASSUME TypeOK, NEW l \in Loops
    PROVE  /\ \A next \in Steps : Goto(l, next) => pc' \in [Loops -> Steps] /\ ctx' \in [Loops -> Locals]
           /\ Finish(l) => pc' \in [Loops -> Steps] /\ ctx' \in [Loops -> Locals]
  <1>1. NoLocals \in Locals
    BY BoundsAssumption DEF NoLocals, Locals, Energies
  <1>2. "idle" \in Steps BY DEF Steps
  <1>3. pc \in [Loops -> Steps] /\ ctx \in [Loops -> Locals] BY DEF TypeOK
  <1>4. \A next \in Steps : Goto(l, next) => pc' \in [Loops -> Steps] /\ ctx' \in [Loops -> Locals]
    BY <1>3 DEF Goto
  <1>5. Finish(l) => pc' \in [Loops -> Steps] /\ ctx' \in [Loops -> Locals]
    BY <1>1, <1>2, <1>3 DEF Finish
  <1>6. QED BY <1>4, <1>5

\* A message starts a handler with well-typed locals.
LEMMA ReceiveType ==
    ASSUME TypeOK, NEW l \in Loops, Receive(l)
    PROVE  TypeOK'
  <1> USE BoundsAssumption, LoopsAssumption DEF dbVars, chargerVars
  <1>1. \A reg \in Energies, s \in Sessions :
            SessionEnergy(reg, session[s].meterStart) \in Energies
    BY SessionEnergyType DEF TypeOK, Rows
  <1>2. register[CpOf[l]] \in Energies
    BY DEF TypeOK
  <1>0. ASSUME NEW txn \in told[CpOf[l]] PROVE txn \in 0..MaxTxn
    BY DEF TypeOK, TxnIds
  <1>a. ASSUME NEW s \in Sessions \cup {NoSession}, NEW txn \in 0..MaxTxn,
               NEW tag \in Publics \cup {Rfid}, NEW e \in Energies
        PROVE  [s |-> s, txn |-> txn, reg |-> register[CpOf[l]], energy |-> e,
                tag |-> tag] \in Locals
    BY <1>2 DEF Locals
  <1>3. ASSUME NEW tag \in Publics \cup {Rfid}, RecvStart(l, tag)
        PROVE  TypeOK'
    <2>1. PICK s \in Sessions, t \in TxnIds :
            ctx' = [ctx EXCEPT ![l] = [s |-> s, txn |-> t, reg |-> register[CpOf[l]],
                                       energy |-> 0, tag |-> tag]]
      BY <1>3 DEF RecvStart
    <2>2. ctx' \in [Loops -> Locals]
      BY <2>1, <1>2 DEF TypeOK, Locals, TxnIds, Energies
    <2>3. pc' \in [Loops -> Steps]
      BY <1>3 DEF TypeOK, RecvStart, Steps
    <2>4. QED BY <1>3, <2>2, <2>3 DEF RecvStart, TypeOK
  <1>4. ASSUME NEW txn \in told[CpOf[l]], RecvStop(l, txn)
        PROVE  TypeOK'
    <2>1. txn \in 0..MaxTxn BY <1>0
    <2>2. ctx' \in [Loops -> Locals]
      <3>1. PICK s \in Sessions :
              ctx' = [ctx EXCEPT ![l] =
                        [s |-> NoSession, txn |-> txn, reg |-> register[CpOf[l]],
                         energy |-> SessionEnergy(register[CpOf[l]], session[s].meterStart),
                         tag |-> Rfid]]
        BY <1>4 DEF RecvStop, ActiveRows
      <3>2. ctx'[l] \in Locals /\ \A k \in Loops \ {l} : ctx'[k] = ctx[k]
        BY <1>1, <1>2, <1>a, <2>1, <3>1 DEF TypeOK
      <3>3. QED BY <3>1, <3>2 DEF TypeOK
    <2>3. pc' \in [Loops -> Steps]
      BY <1>4 DEF TypeOK, RecvStop, Steps
    <2>4. QED BY <1>4, <2>2, <2>3 DEF RecvStop, TypeOK
  <1>5. ASSUME NEW txn \in told[CpOf[l]], RecvMeter(l, txn)
        PROVE  TypeOK'
    <2>1. txn \in 0..MaxTxn BY <1>0
    <2>2. ctx' \in [Loops -> Locals]
      <3>1. CASE ctx' = [ctx EXCEPT ![l].txn = txn]
        <4>1. [ctx[l] EXCEPT !.txn = txn] \in Locals
          BY <2>1, LocalsUpdate
        <4>2. QED BY <3>1, <4>1 DEF TypeOK
      <3>2. CASE \E s \in ActiveRows(CpOf[l], txn) :
              ctx' = [ctx EXCEPT ![l] =
                        [s |-> s, txn |-> txn, reg |-> register[CpOf[l]],
                         energy |-> SessionEnergy(register[CpOf[l]], session[s].meterStart),
                         tag |-> Rfid]]
        <4>1. PICK s \in Sessions :
                ctx' = [ctx EXCEPT ![l] =
                          [s |-> s, txn |-> txn, reg |-> register[CpOf[l]],
                           energy |-> SessionEnergy(register[CpOf[l]], session[s].meterStart),
                           tag |-> Rfid]]
          BY <3>2 DEF ActiveRows
        <4>2. ctx'[l] \in Locals /\ \A k \in Loops \ {l} : ctx'[k] = ctx[k]
          BY <1>1, <1>2, <1>a, <2>1, <4>1 DEF TypeOK
        <4>3. QED BY <4>1, <4>2 DEF TypeOK
      <3>3. QED BY <1>5, <3>1, <3>2 DEF RecvMeter
    <2>3. pc' \in [Loops -> Steps]
      BY <1>5 DEF TypeOK, RecvMeter, Steps
    <2>4. QED BY <1>5, <2>2, <2>3 DEF RecvMeter, TypeOK
  <1>6. QED BY <1>3, <1>4, <1>5 DEF Receive

\* The steps of StartTransaction keep the types.
LEMMA StartType ==
    ASSUME TypeOK, NEW l \in Loops,
           StartCommit(l) \/ StartRedis(l) \/ StartEvent(l) \/ StartLink(l) \/ StartReply(l)
    PROVE  TypeOK'
  <1> USE BoundsAssumption, LoopsAssumption DEF dbVars, chargerVars
  <1>1. CASE StartCommit(l)
    <2>1. [status |-> "active", cp |-> CpOf[l], txn |-> ctx[l].txn, meterStart |-> ctx[l].reg,
           meterStop |-> 0, energy |-> 0] \in Rows
      BY DEF TypeOK, Rows, Locals, Energies
    <2>2. session' \in [Sessions -> Rows]
      BY <1>1, <2>1 DEF StartCommit, TypeOK
    <2>3. pc' \in [Loops -> Steps] /\ ctx' \in [Loops -> Locals]
      BY <1>1, ControlType DEF StartCommit, Steps
    <2>4. QED BY <1>1, <2>2, <2>3 DEF StartCommit, TypeOK
  <1>2. CASE StartRedis(l)
    <2>1. pc' \in [Loops -> Steps] /\ ctx' \in [Loops -> Locals]
      BY <1>2, ControlType DEF StartRedis, Steps
    <2>2. QED BY <1>2, <2>1 DEF StartRedis, TypeOK
  <1>3. CASE StartEvent(l)
    <2>1. pc' \in [Loops -> Steps] /\ ctx' \in [Loops -> Locals]
      BY <1>3, ControlType DEF StartEvent, Steps
    <2>2. QED BY <1>3, <2>1 DEF StartEvent, Publish, TypeOK
  <1>4. CASE StartLink(l)
    <2>1. pc' \in [Loops -> Steps] /\ ctx' \in [Loops -> Locals]
      BY <1>4, ControlType DEF StartLink, Steps
    <2>2. public' \in [Publics -> PublicRows]
      <3> DEFINE p == ctx[l].tag
      <3>1. ctx[l].txn \in 0..MaxTxn /\ ctx[l].s \in Sessions \cup {NoSession}
        BY DEF TypeOK, Locals
      <3>2. CASE public' = public
        BY <3>2 DEF TypeOK
      <3>3. CASE public' = [public EXCEPT ![p].txn = ctx[l].txn, ![p].own = ctx[l].s]
        <4>1. CASE p \in Publics
          <5>1. [public[p] EXCEPT !.txn = ctx[l].txn, !.own = ctx[l].s] \in PublicRows
            <6>1. \A r \in PublicRows : \A t \in 0..MaxTxn : \A o \in Sessions \cup {NoSession} :
                    [r EXCEPT !.txn = t, !.own = o] \in PublicRows
              BY DEF PublicRows
            <6>2. public[p] \in PublicRows BY <4>1 DEF TypeOK
            <6>3. QED BY <3>1, <6>1, <6>2
          <5>2. public' = [public EXCEPT ![p] =
                              [public[p] EXCEPT !.txn = ctx[l].txn, !.own = ctx[l].s]]
            BY <3>3, <4>1 DEF TypeOK
          <5>3. QED BY <5>1, <5>2 DEF TypeOK
        <4>2. CASE p \notin Publics
          BY <3>3, <4>2 DEF TypeOK
        <4>3. QED BY <4>1, <4>2
      <3>4. QED BY <1>4, <3>2, <3>3 DEF StartLink
    <2>3. QED BY <1>4, <2>1, <2>2 DEF StartLink, TypeOK
  <1>5. CASE StartReply(l)
    <2>1. pc' \in [Loops -> Steps] /\ ctx' \in [Loops -> Locals]
      BY <1>5, ControlType DEF StartReply
    <2>2. told' \in [ChargePoints -> SUBSET (0..MaxTxn)]
      <3>1. ctx[l].txn \in 0..MaxTxn
        BY DEF TypeOK, Locals
      <3>2. CASE told' = [told EXCEPT ![CpOf[l]] = @ \cup {ctx[l].txn}]
        BY <3>1, <3>2 DEF TypeOK
      <3>3. QED BY <1>5, <3>2 DEF StartReply, TypeOK
    <2>3. QED BY <1>5, <2>1, <2>2 DEF StartReply, TypeOK
  <1>6. QED BY <1>1, <1>2, <1>3, <1>4, <1>5

\* A row stays one when it is closed.
LEMMA RowClosed ==
    ASSUME NEW r \in Rows, NEW reg \in Energies, NEW energy \in Energies
    PROVE  [r EXCEPT !.status = "completed", !.meterStop = reg, !.energy = energy] \in Rows
  BY DEF Rows

\* The steps of StopTransaction keep the types.
LEMMA StopType ==
    ASSUME TypeOK, HandlersHaveSession, NEW l \in Loops,
           \/ StopUpdate(l) \/ StopPublic(l) \/ StopRedis(l)
           \/ CdrSelect(l) \/ CdrInsert(l) \/ CdrEvent(l) \/ StopEvent(l)
    PROVE  TypeOK'
  <1> USE BoundsAssumption, LoopsAssumption DEF dbVars, chargerVars
  <1>0. ctx[l].energy \in Energies /\ ctx[l].reg \in Energies
    BY DEF TypeOK, Locals
  <1>1. CASE StopUpdate(l)
    <2>1. session' \in [Sessions -> Rows]
      <3>1. \A s \in Sessions :
              [session[s] EXCEPT !.status = "completed", !.meterStop = ctx[l].reg,
                                 !.energy = ctx[l].energy] \in Rows
        <4>1. \A s \in Sessions : session[s] \in Rows BY DEF TypeOK
        <4>2. QED BY <1>0, <4>1, RowClosed
      <3>2. QED BY <1>1, <3>1 DEF StopUpdate, TypeOK
    <2>2. pc' \in [Loops -> Steps] /\ ctx' \in [Loops -> Locals]
      <3>1. CASE Finish(l)
        BY <3>1, ControlType
      <3>2. CASE \E s \in Sessions : /\ ctx' = [ctx EXCEPT ![l].s = s]
                                     /\ pc' = [pc EXCEPT ![l] = "stop_public"]
        <4>1. PICK s \in Sessions : /\ ctx' = [ctx EXCEPT ![l].s = s]
                                   /\ pc' = [pc EXCEPT ![l] = "stop_public"]
          BY <3>2
        <4>2. [ctx[l] EXCEPT !.s = s] \in Locals
          BY LocalsUpdate
        <4>3. QED BY <4>1, <4>2 DEF TypeOK, Steps
      <3>3. QED BY <1>1, <3>1, <3>2 DEF StopUpdate, ActiveRows
    <2>3. QED BY <1>1, <2>1, <2>2 DEF StopUpdate, TypeOK
  <1>2. CASE StopPublic(l)
    <2>1. pc' \in [Loops -> Steps] /\ ctx' \in [Loops -> Locals]
      BY <1>2, ControlType DEF StopPublic, Steps
    <2>2. \A p \in Publics :
            [public[p] EXCEPT !.stopped = TRUE, !.kwh = ctx[l].energy] \in PublicRows
      BY <1>0 DEF TypeOK, PublicRows
    <2>3. public' \in [Publics -> PublicRows]
      BY <1>2, <2>2 DEF StopPublic, TypeOK
    <2>4. QED BY <1>2, <2>1, <2>3 DEF StopPublic, TypeOK
  <1>3. CASE StopRedis(l)
    <2>1. pc' \in [Loops -> Steps] /\ ctx' \in [Loops -> Locals]
      BY <1>3, ControlType DEF StopRedis, Steps
    <2>2. QED BY <1>3, <2>1 DEF StopRedis, TypeOK
  <1>4. CASE CdrSelect(l)
    <2>1. session[ctx[l].s].energy \in Energies
      BY <1>4 DEF CdrSelect, HandlersHaveSession, TypeOK, Rows
    <2>2. [ctx[l] EXCEPT !.energy = session[ctx[l].s].energy] \in Locals
      BY <2>1, LocalsUpdate
    <2>3. ctx' \in [Loops -> Locals]
      BY <1>4, <2>2 DEF CdrSelect, TypeOK
    <2>4. pc' \in [Loops -> Steps]
      BY <1>4 DEF CdrSelect, TypeOK, Steps
    <2>5. QED BY <1>4, <2>3, <2>4 DEF CdrSelect, TypeOK
  <1>5. CASE CdrInsert(l)
    <2>1. pc' \in [Loops -> Steps] /\ ctx' \in [Loops -> Locals]
      BY <1>5, ControlType DEF CdrInsert, Steps
    <2>2. \A s \in Sessions : Append(cdrs[s], ctx[l].energy) \in Seq(Energies)
      BY <1>0 DEF TypeOK
    <2>3. cdrs' \in [Sessions -> Seq(Energies)]
      BY <1>5, <2>2 DEF CdrInsert, TypeOK
    <2>4. QED BY <1>5, <2>1, <2>3 DEF CdrInsert, TypeOK
  <1>6. CASE CdrEvent(l)
    <2>1. pc' \in [Loops -> Steps] /\ ctx' \in [Loops -> Locals]
      BY <1>6, ControlType DEF CdrEvent, Steps
    <2>2. QED BY <1>6, <2>1 DEF CdrEvent, Publish, TypeOK
  <1>7. CASE StopEvent(l)
    <2>1. pc' \in [Loops -> Steps] /\ ctx' \in [Loops -> Locals]
      BY <1>7, ControlType DEF StopEvent
    <2>2. QED BY <1>7, <2>1 DEF StopEvent, Publish, TypeOK
  <1>8. QED BY <1>1, <1>2, <1>3, <1>4, <1>5, <1>6, <1>7

\* The steps of MeterValues keep the types.
LEMMA MeterType ==
    ASSUME TypeOK, HandlersHaveSession, NEW l \in Loops,
           MeterRedis(l) \/ MeterSession(l) \/ MeterPublic(l) \/ MeterEvent(l)
    PROVE  TypeOK'
  <1> USE BoundsAssumption, LoopsAssumption DEF dbVars, chargerVars
  <1>0. ctx[l].energy \in Energies
    BY DEF TypeOK, Locals
  <1>1. CASE MeterRedis(l)
    <2>1. pc' \in [Loops -> Steps] /\ ctx' \in [Loops -> Locals]
      BY <1>1, ControlType DEF MeterRedis, Steps
    <2>2. live' \in [Sessions -> {"none", "full", "partial"}]
      BY <1>1 DEF MeterRedis, TypeOK
    <2>3. QED BY <1>1, <2>1, <2>2 DEF MeterRedis, TypeOK
  <1>2. CASE MeterSession(l)
    <2> DEFINE s == ctx[l].s
    <2>1. s \in Sessions
      BY <1>2 DEF MeterSession, HandlersHaveSession
    <2>2. Larger(session[s].energy, ctx[l].energy) \in Energies
      BY <1>0, <2>1 DEF TypeOK, Rows, Larger
    <2>3. [session[s] EXCEPT !.energy = Larger(session[s].energy, ctx[l].energy)] \in Rows
      <3>1. \A r \in Rows, e \in Energies : [r EXCEPT !.energy = e] \in Rows
        BY DEF Rows
      <3>2. session[s] \in Rows BY <2>1 DEF TypeOK
      <3>3. QED BY <2>2, <3>1, <3>2
    <2>4. session' \in [Sessions -> Rows]
      BY <1>2, <2>1, <2>3 DEF MeterSession, TypeOK
    <2>5. pc' \in [Loops -> Steps] /\ ctx' \in [Loops -> Locals]
      BY <1>2, ControlType DEF MeterSession, Steps
    <2>6. QED BY <1>2, <2>4, <2>5 DEF MeterSession, TypeOK
  <1>3. CASE MeterPublic(l)
    <2>1. pc' \in [Loops -> Steps] /\ ctx' \in [Loops -> Locals]
      BY <1>3, ControlType DEF MeterPublic, Steps
    <2>2. \A p \in Publics : [public[p] EXCEPT !.kwh = ctx[l].energy] \in PublicRows
      BY <1>0 DEF TypeOK, PublicRows
    <2>3. public' \in [Publics -> PublicRows]
      BY <1>3, <2>2 DEF MeterPublic, TypeOK
    <2>4. QED BY <1>3, <2>1, <2>3 DEF MeterPublic, TypeOK
  <1>4. CASE MeterEvent(l)
    <2>1. pc' \in [Loops -> Steps] /\ ctx' \in [Loops -> Locals]
      BY <1>4, ControlType DEF MeterEvent
    <2>2. emitted' \in [Sessions -> SUBSET {"start", "meter", "cdr", "stop"}]
      <3>1. CASE ctx[l].s = NoSession
        BY <1>4, <3>1 DEF MeterEvent, TypeOK
      <3>2. CASE ctx[l].s # NoSession
        <4>1. Publish(ctx[l].s, "meter")
          BY <1>4, <3>2 DEF MeterEvent
        <4>2. QED BY <4>1 DEF Publish, TypeOK
      <3>3. QED BY <3>1, <3>2
    <2>3. QED BY <1>4, <2>1, <2>2 DEF MeterEvent, TypeOK
  <1>5. QED BY <1>1, <1>2, <1>3, <1>4

\* Every step keeps the types.
LEMMA TypeStep ==
    ASSUME TypeOK, HandlersHaveSession, [Next]_vars
    PROVE  TypeOK'
  <1>1. ASSUME NEW l \in Loops, Continue(l) PROVE TypeOK'
    BY <1>1, StartType, StopType, MeterType DEF Continue
  <1>2. ASSUME NEW l \in Loops, Fail(l) PROVE TypeOK'
    <2>1. pc' \in [Loops -> Steps] /\ ctx' \in [Loops -> Locals]
      BY <1>2, ControlType DEF Fail
    <2>2. QED BY <1>2, <2>1 DEF Fail, TypeOK, dbVars, chargerVars
  <1>3. ASSUME NEW cp \in ChargePoints, Deliver(cp) PROVE TypeOK'
    <2>1. register' \in [ChargePoints -> Energies]
      BY <1>3, BoundsAssumption DEF Deliver, TypeOK, Energies
    <2>2. QED BY <1>3, <2>1 DEF Deliver, TypeOK, dbVars
  <1>4. CASE UNCHANGED vars
    BY <1>4 DEF vars, TypeOK
  <1>5. QED BY <1>1, <1>2, <1>3, <1>4, ReceiveType DEF Next

\* Every step keeps HandlersHaveSession: a handler gets its session with the
\* step that sends it past the lookup, and keeps it until it finishes.
LEMMA HandlersStep ==
    ASSUME TypeOK, HandlersHaveSession, [Next]_vars
    PROVE  HandlersHaveSession'
  <1> SUFFICES ASSUME NEW k \in Loops,
                      pc'[k] \notin {"idle", "stop_update", "meter_event"}
               PROVE  ctx'[k].s \in Sessions
    BY DEF HandlersHaveSession
  <1> USE DEF TypeOK, HandlersHaveSession
  <1>1. ASSUME NEW l \in Loops, Receive(l) PROVE ctx'[k].s \in Sessions
    <2>1. ASSUME NEW tag, RecvStart(l, tag) PROVE ctx'[k].s \in Sessions
      BY <2>1 DEF RecvStart
    <2>2. ASSUME NEW txn, RecvStop(l, txn) PROVE ctx'[k].s \in Sessions
      BY <2>2 DEF RecvStop
    <2>3. ASSUME NEW txn, RecvMeter(l, txn) PROVE ctx'[k].s \in Sessions
      <3>1. CASE k # l
        BY <2>3, <3>1 DEF RecvMeter
      <3>2. CASE pc' = [pc EXCEPT ![l] = "meter_event"]
        BY <2>3, <3>1, <3>2 DEF RecvMeter
      <3>3. CASE k = l /\ \E s \in Sessions : ctx'[l].s = s
        BY <3>3
      <3>4. QED BY <2>3, <3>1, <3>2, <3>3 DEF RecvMeter, ActiveRows
    <2>4. QED BY <1>1, <2>1, <2>2, <2>3 DEF Receive
  <1>2. ASSUME NEW l \in Loops, Finish(l) PROVE ctx'[k].s \in Sessions
    BY <1>2 DEF Finish
  <1>3. ASSUME NEW l \in Loops, NEW next, Goto(l, next),
               pc[l] \notin {"idle", "stop_update", "meter_event"}
        PROVE  ctx'[k].s \in Sessions
    BY <1>3 DEF Goto
  <1>4. ASSUME NEW l \in Loops, StopUpdate(l) PROVE ctx'[k].s \in Sessions
    <2>1. CASE k # l
      BY <1>2, <1>4, <2>1 DEF StopUpdate, Finish
    <2>2. CASE k = l /\ Finish(l)
      BY <1>2, <2>2
    <2>3. CASE k = l /\ \E s \in Sessions : ctx' = [ctx EXCEPT ![l].s = s]
      BY <2>3 DEF Locals
    <2>4. QED BY <1>4, <2>1, <2>2, <2>3 DEF StopUpdate, ActiveRows
  <1>5. ASSUME NEW l \in Loops, CdrSelect(l) PROVE ctx'[k].s \in Sessions
    BY <1>5 DEF CdrSelect, Locals
  <1>6. ASSUME NEW l \in Loops, Continue(l) PROVE ctx'[k].s \in Sessions
    BY <1>2, <1>3, <1>4, <1>5, <1>6
       DEF Continue, StartCommit, StartRedis, StartEvent, StartLink, StartReply,
           StopPublic, StopRedis, CdrInsert, CdrEvent, StopEvent,
           MeterRedis, MeterSession, MeterPublic, MeterEvent
  <1>7. ASSUME NEW l \in Loops, Fail(l) PROVE ctx'[k].s \in Sessions
    BY <1>2, <1>7 DEF Fail
  <1>8. CASE (\E cp \in ChargePoints : Deliver(cp)) \/ UNCHANGED vars
    BY <1>8 DEF Deliver, vars
  <1>9. QED BY <1>1, <1>6, <1>7, <1>8 DEF Next

\* Every reachable state is well typed: energies stay within the register,
\* a public session's columns within theirs, and no handler runs past its lookup
\* without a session.
THEOREM TypeCorrect == Spec => [](TypeOK /\ HandlersHaveSession)
  <1>1. Init => TypeOK /\ HandlersHaveSession
    BY TypeInit DEF Init, HandlersHaveSession
  <1>2. TypeOK /\ HandlersHaveSession /\ [Next]_vars => (TypeOK /\ HandlersHaveSession)'
    BY TypeStep, HandlersStep
  <1>3. QED BY <1>1, <1>2, PTL DEF Spec

-----------------------------------------------------------------------------
(* Billing *)

\* What is left of BillingInv once HandlersHaveSession is known.
LedgerInv ==
    ReservedRowsAbsent /\ OneSettler /\ CdrReadIsCurrent /\ AtMostOneCdr /\ CdrBillsFinalEnergy

\* A step of handler l that writes neither sessions nor CDRs, and does not make
\* l a settler or a committer, keeps the invariant.
LEMMA QuietStep ==
    ASSUME TypeOK, LedgerInv, NEW l \in Loops,
           UNCHANGED <<session, cdrs>>,
           \A k \in Loops \ {l} : pc'[k] = pc[k] /\ ctx'[k] = ctx[k],
           \/ pc'[l] \notin {"start_commit", "stop_public", "stop_redis", "cdr_select", "cdr_insert"}
           \/ /\ pc[l] \in {"stop_public", "stop_redis"}
              /\ pc'[l] \in {"stop_redis", "cdr_select"}
              /\ ctx'[l].s = ctx[l].s
    PROVE  LedgerInv'
  <1> USE DEF LedgerInv
  <1>1. \A k \in Loops : pc'[k] = "start_commit" =>
            k # l /\ pc[k] = "start_commit" /\ ctx'[k] = ctx[k]
    OBVIOUS
  <1>2. ReservedRowsAbsent'
    BY <1>1 DEF ReservedRowsAbsent
  <1>3. \A k \in Loops, s \in Sessions : Settles(k, s)' => Settles(k, s)
    BY DEF Settles
  <1>4. OneSettler'
    BY <1>3 DEF OneSettler
  <1>5. \A k \in Loops : pc'[k] = "cdr_insert" => pc[k] = "cdr_insert" /\ ctx'[k] = ctx[k]
    OBVIOUS
  <1>6. CdrReadIsCurrent'
    BY <1>5 DEF CdrReadIsCurrent
  <1>7. AtMostOneCdr' /\ CdrBillsFinalEnergy'
    BY DEF AtMostOneCdr, CdrBillsFinalEnergy
  <1>8. QED BY <1>2, <1>4, <1>6, <1>7

\* An INSERT of StartTransaction takes a UUID nobody else is about to commit.
LEMMA RecvStartBilling ==
    ASSUME TypeOK, LedgerInv, NEW l \in Loops, NEW tag, RecvStart(l, tag)
    PROVE  LedgerInv'
  <1> USE DEF LedgerInv
  <1>1. UNCHANGED <<session, cdrs>>
    BY DEF RecvStart, dbVars
  <1>2. PICK s \in Sessions :
          /\ session[s].status = "absent"
          /\ \A k \in Loops : ~(pc[k] = "start_commit" /\ ctx[k].s = s)
          /\ ctx'[l].s = s
    BY DEF RecvStart, TypeOK
  <1>3. pc'[l] = "start_commit" /\ \A k \in Loops \ {l} : pc'[k] = pc[k] /\ ctx'[k] = ctx[k]
    BY DEF RecvStart, TypeOK
  <1>4. ReservedRowsAbsent'
    BY <1>1, <1>2, <1>3 DEF ReservedRowsAbsent
  <1>5. \A k \in Loops, t \in Sessions : Settles(k, t)' => Settles(k, t)
    BY <1>3 DEF Settles
  <1>6. OneSettler'
    BY <1>1, <1>5 DEF OneSettler
  <1>7. CdrReadIsCurrent'
    BY <1>1, <1>3 DEF CdrReadIsCurrent
  <1>8. AtMostOneCdr' /\ CdrBillsFinalEnergy'
    BY <1>1 DEF AtMostOneCdr, CdrBillsFinalEnergy
  <1>9. QED BY <1>4, <1>6, <1>7, <1>8

\* A committed session is a row that was absent, so no settler and no CDR knows it.
LEMMA StartCommitBilling ==
    ASSUME TypeOK, LedgerInv, NEW l \in Loops, StartCommit(l)
    PROVE  LedgerInv'
  <1> USE DEF LedgerInv
  <1> DEFINE s == ctx[l].s
  <1>1. pc[l] = "start_commit" /\ s \in Sessions /\ session[s].status = "absent"
    BY DEF StartCommit, ReservedRowsAbsent
  <1>2. cdrs' = cdrs /\ ctx' = ctx /\ \A t \in Sessions \ {s} : session'[t] = session[t]
    BY DEF StartCommit, Goto, TypeOK
  <1>3. pc'[l] = "start_redis" /\ \A k \in Loops \ {l} : pc'[k] = pc[k]
    BY DEF StartCommit, Goto, TypeOK
  <1>4. ReservedRowsAbsent'
    BY <1>1, <1>2, <1>3 DEF ReservedRowsAbsent
  <1>5. \A k \in Loops, t \in Sessions : Settles(k, t)' => Settles(k, t) /\ t # s
    BY <1>1, <1>2, <1>3 DEF Settles, OneSettler
  <1>6. OneSettler'
    BY <1>2, <1>5 DEF OneSettler
  <1>7. ASSUME NEW k \in Loops, pc'[k] = "cdr_insert"
        PROVE  ctx'[k].energy = session'[ctx'[k].s].energy
    <2>1. pc[k] = "cdr_insert" /\ ctx'[k] = ctx[k]
      BY <1>2, <1>3, <1>7
    <2>2. ctx[k].s # s
      BY <1>1, <2>1 DEF OneSettler, Settles
    <2>3. session'[ctx[k].s] = session[ctx[k].s]
      BY <1>1, <2>2 DEF StartCommit, TypeOK
    <2>4. QED BY <2>1, <2>3 DEF CdrReadIsCurrent
  <1>8. CdrReadIsCurrent'
    BY <1>7 DEF CdrReadIsCurrent
  <1>9. cdrs[s] = <<>>
    <2>1. 1 \in 1..Len(cdrs[s]) => session[s].status = "completed"
      BY <1>1 DEF CdrBillsFinalEnergy
    <2>2. cdrs[s] \in Seq(Energies) BY <1>1 DEF TypeOK
    <2>3. Len(cdrs[s]) = 0 BY <1>1, <2>1, <2>2
    <2>4. QED BY <2>2, <2>3
  <1>10. AtMostOneCdr' /\ CdrBillsFinalEnergy'
    BY <1>2, <1>9 DEF AtMostOneCdr, CdrBillsFinalEnergy
  <1>11. QED BY <1>4, <1>6, <1>8, <1>10

\* The conditional UPDATE completes the active rows it finds and no others.
LEMMA UpdateCloses ==
    ASSUME TypeOK, NEW l \in Loops, StopUpdate(l)
    PROVE  /\ \A s \in ActiveRows(CpOf[l], ctx[l].txn) : session'[s].status = "completed"
           /\ \A s \in Sessions \ ActiveRows(CpOf[l], ctx[l].txn) : session'[s] = session[s]
  <1> DEFINE rows == ActiveRows(CpOf[l], ctx[l].txn)
             closed(s) == [session[s] EXCEPT !.status = "completed", !.meterStop = ctx[l].reg,
                                             !.energy = ctx[l].energy]
  <1>1. rows \subseteq Sessions BY DEF ActiveRows
  <1>2. session' = [s \in Sessions |-> IF s \in rows THEN closed(s) ELSE session[s]]
    BY DEF StopUpdate
  <1>3. \A s \in Sessions : closed(s).status = "completed"
    BY DEF TypeOK, Rows
  <1> HIDE DEF rows, closed
  <1>4. /\ \A s \in rows : session'[s].status = "completed"
        /\ \A s \in Sessions \ rows : session'[s] = session[s]
    BY <1>1, <1>2, <1>3
  <1>5. QED BY <1>4 DEF rows

\* The conditional UPDATE: the rows it closes were active, so they had neither a
\* settler nor a CDR, and the loop becomes the settler of one of them.
LEMMA StopUpdateBilling ==
    ASSUME TypeOK, HandlersHaveSession, LedgerInv, NEW l \in Loops, StopUpdate(l)
    PROVE  LedgerInv'
  <1> USE DEF LedgerInv
  <1> DEFINE rows == ActiveRows(CpOf[l], ctx[l].txn)
  <1>1. \A s \in rows : s \in Sessions /\ session[s].status = "active"
    BY DEF ActiveRows
  <1>2. /\ pc[l] = "stop_update"
        /\ cdrs' = cdrs
        /\ \A s \in rows : session'[s].status = "completed"
        /\ \A s \in Sessions \ rows : session'[s] = session[s]
    BY UpdateCloses DEF StopUpdate
  <1>3. \A k \in Loops \ {l} : pc'[k] = pc[k] /\ ctx'[k] = ctx[k]
    BY DEF StopUpdate, Finish, TypeOK
  <1>4. \/ pc'[l] = "idle"
        \/ pc'[l] = "stop_public" /\ ctx'[l].s \in rows
    <2>1. CASE Finish(l)
      BY <2>1 DEF Finish, TypeOK
    <2>2. CASE \E s \in rows : /\ ctx' = [ctx EXCEPT ![l].s = s]
                              /\ pc' = [pc EXCEPT ![l] = "stop_public"]
      BY <2>2 DEF TypeOK, Locals
    <2>3. QED BY <2>1, <2>2 DEF StopUpdate
  <1>5. \A s \in rows : cdrs[s] = <<>>
    <2>1. ASSUME NEW s \in rows PROVE cdrs[s] = <<>>
      <3>1. cdrs[s] \in Seq(Energies) /\ Len(cdrs[s]) <= 1
        BY <1>1 DEF TypeOK, AtMostOneCdr
      <3>2. 1 \notin 1..Len(cdrs[s])
        BY <1>1 DEF CdrBillsFinalEnergy
      <3>3. Len(cdrs[s]) = 0 BY <3>1, <3>2
      <3>4. QED BY <3>1, <3>3
    <2>2. QED BY <2>1
  <1>6. \A k \in Loops, s \in rows : ~Settles(k, s)
    BY <1>1 DEF OneSettler
  <1>7. ReservedRowsAbsent'
    <2>1. \A k \in Loops : pc'[k] = "start_commit" => k # l
      BY <1>4
    <2>2. \A k \in Loops : pc[k] = "start_commit" => ctx[k].s \in Sessions \ rows
      BY <1>1 DEF ReservedRowsAbsent
    <2>3. QED BY <1>2, <1>3, <2>1, <2>2 DEF ReservedRowsAbsent
  <1>8. OneSettler'
    <2>1. \A k \in Loops, s \in Sessions : Settles(k, s)' /\ k # l => Settles(k, s) /\ s \notin rows
      BY <1>3, <1>6 DEF Settles
    <2>2. \A s \in Sessions : Settles(l, s)' => s \in rows
      BY <1>4 DEF Settles
    <2>3. QED BY <1>1, <1>2, <1>5, <2>1, <2>2 DEF OneSettler
  <1>9. CdrReadIsCurrent'
    <2>1. ASSUME NEW k \in Loops, pc'[k] = "cdr_insert"
          PROVE  ctx'[k].energy = session'[ctx'[k].s].energy
      <3>1. k # l /\ pc[k] = "cdr_insert" /\ ctx'[k] = ctx[k]
        BY <1>3, <1>4, <2>1
      <3>2. ctx[k].s \notin rows
        BY <1>6, <3>1 DEF Settles
      <3>3. session'[ctx[k].s] = session[ctx[k].s]
        BY <1>2, <3>1, <3>2 DEF HandlersHaveSession
      <3>4. QED BY <3>1, <3>3 DEF CdrReadIsCurrent
    <2>2. QED BY <2>1 DEF CdrReadIsCurrent
  <1>10. AtMostOneCdr' /\ CdrBillsFinalEnergy'
    <2>1. \A s \in Sessions \ rows : session'[s] = session[s] BY <1>2
    <2>2. \A s \in rows : Len(cdrs[s]) = 0 BY <1>5
    <2>3. QED BY <1>2, <2>1, <2>2 DEF AtMostOneCdr, CdrBillsFinalEnergy
  <1>11. QED BY <1>7, <1>8, <1>9, <1>10

\* generate_cdr reads the row its own loop has closed.
LEMMA CdrSelectBilling ==
    ASSUME TypeOK, HandlersHaveSession, LedgerInv, NEW l \in Loops, CdrSelect(l)
    PROVE  LedgerInv'
  <1> USE DEF LedgerInv
  <1>1. UNCHANGED <<session, cdrs>> /\ pc[l] = "cdr_select" /\ pc'[l] = "cdr_insert"
    BY DEF CdrSelect, dbVars, TypeOK
  <1>2. \A k \in Loops \ {l} : pc'[k] = pc[k] /\ ctx'[k] = ctx[k]
    BY DEF CdrSelect, TypeOK
  <1>3. ctx'[l].s = ctx[l].s /\ ctx'[l].energy = session[ctx[l].s].energy
    BY DEF CdrSelect, TypeOK, Locals
  <1>4. ReservedRowsAbsent'
    BY <1>1, <1>2 DEF ReservedRowsAbsent
  <1>5. \A k \in Loops, s \in Sessions : Settles(k, s)' => Settles(k, s)
    BY <1>1, <1>2, <1>3 DEF Settles
  <1>6. OneSettler'
    BY <1>1, <1>5 DEF OneSettler
  <1>7. CdrReadIsCurrent'
    BY <1>1, <1>2, <1>3 DEF CdrReadIsCurrent
  <1>8. AtMostOneCdr' /\ CdrBillsFinalEnergy'
    BY <1>1 DEF AtMostOneCdr, CdrBillsFinalEnergy
  <1>9. QED BY <1>4, <1>6, <1>7, <1>8

\* The only settler of a session inserts its first and only CDR.
LEMMA CdrInsertBilling ==
    ASSUME TypeOK, HandlersHaveSession, LedgerInv, NEW l \in Loops, CdrInsert(l)
    PROVE  LedgerInv'
  <1> USE DEF LedgerInv
  <1> DEFINE s == ctx[l].s
  <1>1. pc[l] = "cdr_insert" /\ s \in Sessions /\ session' = session /\ ctx' = ctx
    BY DEF CdrInsert, Goto, HandlersHaveSession
  <1>2. Settles(l, s)
    BY <1>1 DEF Settles
  <1>3. cdrs[s] = <<>> /\ session[s].status = "completed" /\ ctx[l].energy = session[s].energy
    BY <1>1, <1>2 DEF OneSettler, CdrReadIsCurrent
  <1>4. cdrs'[s] = <<session[s].energy>> /\ \A t \in Sessions \ {s} : cdrs'[t] = cdrs[t]
    BY <1>1, <1>3 DEF CdrInsert, TypeOK
  <1>5. pc'[l] = "cdr_event" /\ \A k \in Loops \ {l} : pc'[k] = pc[k]
    BY DEF CdrInsert, Goto, TypeOK
  <1>6. ReservedRowsAbsent'
    BY <1>1, <1>5 DEF ReservedRowsAbsent
  <1>7. \A k \in Loops, t \in Sessions : Settles(k, t)' => Settles(k, t) /\ t # s
    BY <1>1, <1>2, <1>5 DEF Settles, OneSettler
  <1>8. OneSettler'
    BY <1>1, <1>4, <1>7 DEF OneSettler
  <1>9. CdrReadIsCurrent'
    BY <1>1, <1>5 DEF CdrReadIsCurrent
  <1>10. /\ Len(cdrs'[s]) <= 1
         /\ \A i \in 1..Len(cdrs'[s]) : cdrs'[s][i] = session[s].energy
    BY <1>4
  <1>11. AtMostOneCdr' /\ CdrBillsFinalEnergy'
    <2>1. ASSUME NEW t \in Sessions
          PROVE  /\ Len(cdrs'[t]) <= 1
                 /\ \A i \in 1..Len(cdrs'[t]) :
                      session[t].status = "completed" /\ cdrs'[t][i] = session[t].energy
      <3>1. CASE t = s BY <1>3, <1>10, <3>1, Zenon
      <3>2. CASE t # s BY <1>4, <3>2 DEF AtMostOneCdr, CdrBillsFinalEnergy
      <3>3. QED BY <3>1, <3>2
    <2>2. QED BY <1>1, <2>1 DEF AtMostOneCdr, CdrBillsFinalEnergy
  <1>12. QED BY <1>6, <1>8, <1>9, <1>11

\* A sample writes the row only while it is active, before it has a settler.
LEMMA MeterSessionBilling ==
    ASSUME TypeOK, HandlersHaveSession, LedgerInv, NEW l \in Loops, MeterSession(l)
    PROVE  LedgerInv'
  <1> USE DEF LedgerInv
  <1> DEFINE s == ctx[l].s
  <1>1. cdrs' = cdrs /\ ctx' = ctx /\ s \in Sessions
    BY DEF MeterSession, Goto, HandlersHaveSession
  <1>2. pc[l] = "meter_session" /\ pc'[l] = "meter_public" /\ \A k \in Loops \ {l} : pc'[k] = pc[k]
    BY DEF MeterSession, Goto, TypeOK
  <1>3. \A t \in Sessions :
          /\ session'[t].status = session[t].status
          /\ session[t].status # "active" => session'[t] = session[t]
    <2>1. CASE session' = session BY <2>1
    <2>2. CASE session[s].status = "active" /\
               session' = [session EXCEPT ![s].energy = Larger(@, ctx[l].energy)]
      BY <1>1, <2>2 DEF TypeOK, Rows
    <2>3. QED BY <2>1, <2>2 DEF MeterSession
  <1>4. ReservedRowsAbsent'
    BY <1>1, <1>2, <1>3 DEF ReservedRowsAbsent
  <1>5. \A k \in Loops, t \in Sessions : Settles(k, t)' => Settles(k, t)
    BY <1>1, <1>2 DEF Settles
  <1>6. OneSettler'
    BY <1>1, <1>3, <1>5 DEF OneSettler
  <1>7. ASSUME NEW k \in Loops, pc'[k] = "cdr_insert"
        PROVE  ctx'[k].energy = session'[ctx'[k].s].energy
    <2>1. pc[k] = "cdr_insert" /\ ctx[k].s \in Sessions
      BY <1>2, <1>7 DEF HandlersHaveSession
    <2>2. session[ctx[k].s].status = "completed"
      BY <2>1 DEF OneSettler, Settles
    <2>3. QED BY <1>1, <1>3, <2>1, <2>2 DEF CdrReadIsCurrent
  <1>8. CdrReadIsCurrent'
    BY <1>7 DEF CdrReadIsCurrent
  <1>9. AtMostOneCdr' /\ CdrBillsFinalEnergy'
    BY <1>1, <1>3 DEF AtMostOneCdr, CdrBillsFinalEnergy
  <1>10. QED BY <1>4, <1>6, <1>8, <1>9

\* Every step keeps the billing invariant.
LEMMA BillingStep ==
    ASSUME TypeOK, BillingInv, [Next]_vars
    PROVE  LedgerInv'
  <1>0. LedgerInv /\ HandlersHaveSession
    BY DEF LedgerInv, BillingInv
  <1>1. ASSUME NEW l \in Loops, Receive(l) PROVE LedgerInv'
    <2>1. ASSUME NEW tag, RecvStart(l, tag) PROVE LedgerInv'
      BY <1>0, <2>1, RecvStartBilling
    <2>2. ASSUME NEW txn, RecvStop(l, txn) PROVE LedgerInv'
      <3>1. UNCHANGED <<session, cdrs>> /\ pc'[l] = "stop_update"
        BY <2>2 DEF RecvStop, dbVars, TypeOK
      <3>2. \A k \in Loops \ {l} : pc'[k] = pc[k] /\ ctx'[k] = ctx[k]
        BY <2>2 DEF RecvStop, TypeOK
      <3>3. QED BY <1>0, <3>1, <3>2, QuietStep
    <2>3. ASSUME NEW txn, RecvMeter(l, txn) PROVE LedgerInv'
      <3>1. UNCHANGED <<session, cdrs>> /\ pc'[l] \in {"meter_event", "meter_redis"}
        BY <2>3 DEF RecvMeter, dbVars, TypeOK
      <3>2. \A k \in Loops \ {l} : pc'[k] = pc[k] /\ ctx'[k] = ctx[k]
        BY <2>3 DEF RecvMeter, TypeOK
      <3>3. QED BY <1>0, <3>1, <3>2, QuietStep
    <2>4. QED BY <1>1, <2>1, <2>2, <2>3 DEF Receive
  <1>2. ASSUME NEW l \in Loops, Finish(l), UNCHANGED <<session, cdrs>> PROVE LedgerInv'
    <2>1. pc'[l] = "idle" /\ \A k \in Loops \ {l} : pc'[k] = pc[k] /\ ctx'[k] = ctx[k]
      BY <1>2 DEF Finish, TypeOK
    <2>2. QED BY <1>0, <1>2, <2>1, QuietStep
  <1>3. ASSUME NEW l \in Loops, NEW next, Goto(l, next), UNCHANGED <<session, cdrs>>,
               \/ next \notin {"start_commit", "stop_public", "stop_redis", "cdr_select", "cdr_insert"}
               \/ pc[l] \in {"stop_public", "stop_redis"} /\ next \in {"stop_redis", "cdr_select"}
        PROVE  LedgerInv'
    <2>1. pc'[l] = next /\ ctx' = ctx /\ \A k \in Loops \ {l} : pc'[k] = pc[k]
      BY <1>3 DEF Goto, TypeOK
    <2>2. QED BY <1>0, <1>3, <2>1, QuietStep
  <1>4. ASSUME NEW l \in Loops, Continue(l) PROVE LedgerInv'
    <2>1. CASE StartRedis(l) \/ StartEvent(l) \/ StartLink(l) \/ StartReply(l)
      BY <1>2, <1>3, <2>1 DEF StartRedis, StartEvent, StartLink, StartReply, dbVars
    <2>2. CASE StopPublic(l) \/ StopRedis(l) \/ CdrEvent(l) \/ StopEvent(l)
      BY <1>2, <1>3, <2>2 DEF StopPublic, StopRedis, CdrEvent, StopEvent, dbVars
    <2>3. CASE MeterRedis(l) \/ MeterPublic(l) \/ MeterEvent(l)
      BY <1>2, <1>3, <2>3 DEF MeterRedis, MeterPublic, MeterEvent, dbVars
    <2>4. QED BY <1>0, <1>4, <2>1, <2>2, <2>3, StartCommitBilling, StopUpdateBilling,
                 CdrSelectBilling, CdrInsertBilling, MeterSessionBilling DEF Continue
  <1>5. ASSUME NEW l \in Loops, Fail(l) PROVE LedgerInv'
    BY <1>2, <1>5 DEF Fail, dbVars
  <1>6. CASE (\E cp \in ChargePoints : Deliver(cp)) \/ UNCHANGED vars
    <2>1. UNCHANGED <<session, cdrs, pc, ctx>>
      BY <1>6 DEF Deliver, vars, dbVars
    <2>2. QED BY <1>0, <2>1 DEF LedgerInv, ReservedRowsAbsent, OneSettler, Settles,
                 CdrReadIsCurrent, AtMostOneCdr, CdrBillsFinalEnergy
  <1>7. QED BY <1>1, <1>4, <1>5, <1>6 DEF Next

\* The invariant behind the billing properties holds in every reachable state,
\* for any number of overlapping connections, failed handlers and retries.
THEOREM BillingCorrect == Spec => [](TypeOK /\ BillingInv)
  <1>1. Init => TypeOK /\ BillingInv
    <2> SUFFICES ASSUME Init PROVE BillingInv
      BY TypeInit
    <2>1. \A s \in Sessions : cdrs[s] = <<>> /\ Len(cdrs[s]) = 0
      BY DEF Init
    <2>2. AtMostOneCdr /\ CdrBillsFinalEnergy
      BY <2>1 DEF AtMostOneCdr, CdrBillsFinalEnergy
    <2>3. QED BY <2>2 DEF Init, BillingInv, ReservedRowsAbsent, OneSettler, Settles,
                   CdrReadIsCurrent, HandlersHaveSession
  <1>2. TypeOK /\ BillingInv /\ [Next]_vars => (TypeOK /\ BillingInv)'
    <2> SUFFICES ASSUME TypeOK, BillingInv, [Next]_vars PROVE (TypeOK /\ BillingInv)'
      OBVIOUS
    <2>1. HandlersHaveSession BY DEF BillingInv
    <2>2. TypeOK' /\ HandlersHaveSession' BY <2>1, TypeStep, HandlersStep
    <2>3. LedgerInv' BY BillingStep
    <2>4. QED BY <2>2, <2>3 DEF LedgerInv, BillingInv
  <1>3. QED BY <1>1, <1>2, PTL DEF Spec

\* No session is ever billed twice, whatever is retried over whichever connection.
THEOREM NoDoubleBilling == Spec => []AtMostOneCdr
  <1>1. BillingInv => AtMostOneCdr BY DEF BillingInv
  <1>2. QED BY <1>1, BillingCorrect, PTL

\* A CDR bills what its completed session row says.
THEOREM CdrAgreesWithSession == Spec => []CdrBillsFinalEnergy
  <1>1. BillingInv => CdrBillsFinalEnergy BY DEF BillingInv
  <1>2. QED BY <1>1, BillingCorrect, PTL

-----------------------------------------------------------------------------
(* What a step may do to a session row *)

\* A step leaves a row alone, commits it, raises its energy, or completes it.
LEMMA RowStep ==
    ASSUME TypeOK, BillingInv, [Next]_vars, NEW s \in Sessions
    PROVE  \/ session'[s] = session[s]
           \/ /\ session[s].status = "absent"
              /\ session'[s].status = "active" /\ session'[s].energy = 0
           \/ /\ session[s].status = "active" /\ session'[s].status = "active"
              /\ session'[s].energy >= session[s].energy
           \/ session[s].status = "active" /\ session'[s].status = "completed"
  <1> USE DEF dbVars
  <1>1. ASSUME NEW l \in Loops, StartCommit(l), ctx[l].s = s
        PROVE  /\ session[s].status = "absent"
               /\ session'[s].status = "active" /\ session'[s].energy = 0
    BY <1>1 DEF StartCommit, BillingInv, ReservedRowsAbsent, TypeOK
  <1>2. ASSUME NEW l \in Loops, StartCommit(l), ctx[l].s # s
        PROVE  session'[s] = session[s]
    BY <1>2 DEF StartCommit, TypeOK
  <1>3. ASSUME NEW l \in Loops, StopUpdate(l)
        PROVE  \/ session'[s] = session[s]
               \/ session[s].status = "active" /\ session'[s].status = "completed"
    <2>1. CASE s \in ActiveRows(CpOf[l], ctx[l].txn)
      <3>1. session[s].status = "active" BY <2>1 DEF ActiveRows
      <3>2. session'[s].status = "completed" BY <1>3, <2>1, UpdateCloses
      <3>3. QED BY <3>1, <3>2
    <2>2. CASE s \notin ActiveRows(CpOf[l], ctx[l].txn)
      BY <1>3, <2>2 DEF StopUpdate
    <2>3. QED BY <2>1, <2>2
  <1>4. ASSUME NEW l \in Loops, MeterSession(l)
        PROVE  \/ session'[s] = session[s]
               \/ /\ session[s].status = "active" /\ session'[s].status = "active"
                  /\ session'[s].energy >= session[s].energy
    <2>1. ctx[l].energy \in Nat /\ session[s].energy \in Nat
      BY BoundsAssumption DEF TypeOK, Rows, Locals, Energies
    <2>2. Larger(session[s].energy, ctx[l].energy) >= session[s].energy
      BY <2>1 DEF Larger
    <2>3. CASE session' = session BY <2>3
    <2>4. CASE session[ctx[l].s].status = "active" /\
               session' = [session EXCEPT ![ctx[l].s].energy = Larger(@, ctx[l].energy)]
      <3>1. CASE ctx[l].s # s BY <2>4, <3>1 DEF TypeOK
      <3>2. CASE ctx[l].s = s BY <2>2, <2>4, <3>2 DEF TypeOK, Rows
      <3>3. QED BY <3>1, <3>2
    <2>5. QED BY <1>4, <2>3, <2>4 DEF MeterSession
  <1>5. ASSUME NEW l \in Loops, Receive(l) \/ Fail(l) PROVE session'[s] = session[s]
    BY <1>5 DEF Receive, RecvStart, RecvStop, RecvMeter, Fail
  <1>6. ASSUME NEW l \in Loops, Continue(l), ~StartCommit(l), ~StopUpdate(l), ~MeterSession(l)
        PROVE  session' = session
    BY <1>6 DEF Continue, StartRedis, StartEvent, StartLink, StartReply, StopPublic,
         StopRedis, CdrSelect, CdrInsert, CdrEvent, StopEvent, MeterRedis, MeterPublic, MeterEvent
  <1>7. CASE (\E cp \in ChargePoints : Deliver(cp)) \/ UNCHANGED vars
    BY <1>7 DEF Deliver, vars
  <1>8. QED BY <1>1, <1>2, <1>3, <1>4, <1>5, <1>6, <1>7 DEF Next

\* A completed session row never changes again.
THEOREM CompletedStaysFinal == Spec => CompletedIsFinal
  <1>1. TypeOK /\ BillingInv /\ [Next]_vars =>
          [\A s \in Sessions :
             session[s].status = "completed" => session'[s] = session[s]]_session
    BY RowStep
  <1>2. QED BY <1>1, BillingCorrect, PTL DEF Spec, CompletedIsFinal

\* A row that does not exist has no energy.
AbsentRowsBlank == \A s \in Sessions : session[s].status = "absent" => session[s].energy = 0

\* The invariant the refinement needs besides BillingInv.
LEMMA AbsentBlank == Spec => []AbsentRowsBlank
  <1>1. Init => AbsentRowsBlank
    BY DEF Init, AbsentRow, AbsentRowsBlank
  <1>2. TypeOK /\ BillingInv /\ AbsentRowsBlank /\ [Next]_vars => AbsentRowsBlank'
    <2> SUFFICES ASSUME TypeOK, BillingInv, AbsentRowsBlank, [Next]_vars, NEW s \in Sessions
                 PROVE  session'[s].status = "absent" => session'[s].energy = 0
      BY DEF AbsentRowsBlank
    <2>1. QED BY RowStep DEF AbsentRowsBlank
  <1>3. QED BY <1>1, <1>2, BillingCorrect, PTL DEF Spec

\* The energy of a session never falls while it is active, even when an old
\* connection's sample is written after a newer one.
THEOREM ActiveEnergyNeverFalls == Spec => ActiveEnergyGrows
  <1>1. TypeOK /\ BillingInv /\ AbsentRowsBlank /\ [Next]_vars =>
          [\A s \in Sessions :
             session'[s].status = "active" => session'[s].energy >= session[s].energy]_session
    <2> SUFFICES ASSUME TypeOK, BillingInv, AbsentRowsBlank, [Next]_vars, NEW s \in Sessions,
                        session'[s].status = "active"
                 PROVE  session'[s].energy >= session[s].energy
      OBVIOUS
    <2>1. session[s].energy \in Nat
      BY BoundsAssumption DEF TypeOK, Rows, Energies
    <2>2. QED BY <2>1, RowStep DEF AbsentRowsBlank
  <1>2. QED BY <1>1, BillingCorrect, AbsentBlank, PTL DEF Spec, ActiveEnergyGrows

-----------------------------------------------------------------------------
(* Rows and events that stay *)

\* A sequence just appended to is not empty.
LEMMA AppendNotEmpty ==
    \A q \in Seq(Energies), e \in Energies : Append(q, e) # <<>>
  <1> SUFFICES ASSUME NEW q \in Seq(Energies), NEW e \in Energies PROVE Append(q, e) # <<>>
    OBVIOUS
  <1>1. Len(Append(q, e)) = Len(q) + 1 /\ Len(q) \in Nat OBVIOUS
  <1>2. QED BY <1>1

\* CDR rows and published events are never taken back.
LEMMA Monotone ==
    ASSUME TypeOK, HandlersHaveSession, [Next]_vars, NEW s \in Sessions
    PROVE  /\ cdrs[s] # <<>> => cdrs'[s] # <<>>
           /\ emitted[s] \subseteq emitted'[s]
  <1> USE DEF dbVars
  <1>1. ASSUME NEW l \in Loops, CdrInsert(l)
        PROVE  cdrs[s] # <<>> => cdrs'[s] # <<>>
    <2>1. cdrs[s] \in Seq(Energies) /\ ctx[l].energy \in Energies
      BY DEF TypeOK, Locals
    <2>2. Append(cdrs[s], ctx[l].energy) # <<>> BY <2>1, AppendNotEmpty
    <2>3. QED BY <1>1, <2>2 DEF CdrInsert, TypeOK
  <1>2. ASSUME NEW l \in Loops, NEW t, NEW type, Publish(t, type)
        PROVE  emitted[s] \subseteq emitted'[s]
    BY <1>2 DEF Publish, TypeOK
  <1>3. ASSUME NEW l \in Loops, Receive(l) \/ Fail(l)
        PROVE  UNCHANGED <<cdrs, emitted>>
    BY <1>3 DEF Receive, RecvStart, RecvStop, RecvMeter, Fail
  <1>4. ASSUME NEW l \in Loops, Continue(l), ~CdrInsert(l)
        PROVE  cdrs' = cdrs
    BY <1>4 DEF Continue, StartCommit, StartRedis, StartEvent, StartLink, StartReply, StopUpdate,
         StopPublic, StopRedis, CdrSelect, CdrEvent, StopEvent,
         MeterRedis, MeterSession, MeterPublic, MeterEvent
  <1>5. ASSUME NEW l \in Loops, Continue(l)
        PROVE  emitted' = emitted \/ \E type : Publish(ctx[l].s, type)
    BY <1>5 DEF Continue, StartCommit, StartRedis, StartEvent, StartLink, StartReply, StopUpdate,
         StopPublic, StopRedis, CdrSelect, CdrInsert, CdrEvent, StopEvent,
         MeterRedis, MeterSession, MeterPublic, MeterEvent
  <1>6. CASE (\E cp \in ChargePoints : Deliver(cp)) \/ UNCHANGED vars
    BY <1>6 DEF Deliver, vars
  <1>7. QED BY <1>1, <1>2, <1>3, <1>4, <1>5, <1>6 DEF Next

-----------------------------------------------------------------------------
(* The refinement *)

\* The mapped variables, session by session.
LEMMA Mapped ==
    ASSUME TypeOK, TypeOK'
    PROVE  /\ Phases = [s \in Sessions |-> PhaseOf[session[s].status]]
           /\ Phases' = [s \in Sessions |-> PhaseOf[session'[s].status]]
           /\ Amounts = [s \in Sessions |-> session[s].energy]
           /\ Amounts' = [s \in Sessions |-> session'[s].energy]
           /\ Amounts' \in [Sessions -> Nat]
           /\ \A s \in Sessions : session[s].energy \in Nat /\ session'[s].energy \in Nat
           /\ PhaseOf["absent"] = "none" /\ PhaseOf["active"] = "open"
           /\ PhaseOf["completed"] = "closed"
  <1>1. \A s \in Sessions : session[s].energy \in Nat /\ session'[s].energy \in Nat
    BY BoundsAssumption DEF TypeOK, Rows, Energies
  <1>2. QED BY <1>1 DEF Phases, Amounts, PhaseOf

\* The handlers' steps are steps of the billing ledger: a commit opens a session,
\* a sample accrues, the conditional UPDATE closes a set of sessions, the CDR
\* insert bills one, and everything else changes nothing the ledger shows.
THEOREM ImplementsLedger == Spec => LedgerSpec
  <1> USE DEF dbVars, chargerVars
  <1>1. Init => Ledger!Init
    BY DEF Init, Ledger!Init, AbsentRow, Phases, Amounts, PhaseOf
  <1>2. TypeOK /\ TypeOK' /\ BillingInv /\ AbsentRowsBlank /\ [Next]_vars
            => [Ledger!Next]_(Ledger!ledgerVars)
    <2> SUFFICES ASSUME TypeOK, TypeOK', BillingInv, AbsentRowsBlank, [Next]_vars
                 PROVE  Ledger!Next \/ UNCHANGED Ledger!ledgerVars
      OBVIOUS
    <2>1. ASSUME NEW l \in Loops, StartCommit(l)
          PROVE  ctx[l].s \in Sessions /\ Ledger!Open(ctx[l].s)
      <3> DEFINE s == ctx[l].s
      <3>1. s \in Sessions /\ session[s].status = "absent" /\ session[s].energy = 0
        BY <2>1 DEF StartCommit, BillingInv, ReservedRowsAbsent, AbsentRowsBlank
      <3>2. session'[s].status = "active" /\ session'[s].energy = 0
        BY <2>1, <3>1 DEF StartCommit, TypeOK
      <3>3. \A t \in Sessions \ {s} : session'[t] = session[t]
        BY <2>1 DEF StartCommit, TypeOK
      <3>4. cdrs' = cdrs BY <2>1 DEF StartCommit
      <3> HIDE DEF s
      <3>5. Phases[s] = "none" BY <3>1, Mapped
      <3>6. Phases' = [Phases EXCEPT ![s] = "open"] BY <3>1, <3>2, <3>3, Mapped
      <3>7. Amounts' = Amounts BY <3>1, <3>2, <3>3, Mapped
      <3>8. s \in Sessions /\ Ledger!Open(s) BY <3>1, <3>4, <3>5, <3>6, <3>7 DEF Ledger!Open
      <3>9. QED BY <3>8 DEF s
    <2>2. ASSUME NEW l \in Loops, MeterSession(l)
          PROVE  \/ ctx[l].s \in Sessions /\ Ledger!Accrue(ctx[l].s)
                 \/ UNCHANGED <<session, cdrs>>
      <3> DEFINE s == ctx[l].s
      <3>1. CASE session' = session BY <2>2, <3>1 DEF MeterSession
      <3>2. CASE session[s].status = "active" /\
                 session' = [session EXCEPT ![s].energy = Larger(@, ctx[l].energy)]
        <4>1. s \in Sessions /\ cdrs' = cdrs
          BY <2>2 DEF MeterSession, BillingInv, HandlersHaveSession
        <4>2. \A t \in Sessions \ {s} : session'[t] = session[t]
          BY <3>2 DEF TypeOK
        <4>3. ctx[l].energy \in Nat
          BY BoundsAssumption DEF TypeOK, Locals, Energies
        <4>4. session'[s].status = "active" /\ session'[s].energy >= session[s].energy
          <5>1. session[s] \in Rows /\ session[s].energy \in Nat BY <4>1, Mapped DEF TypeOK
          <5>2. session'[s] = [session[s] EXCEPT !.energy = Larger(session[s].energy, ctx[l].energy)]
            BY <3>2, <4>1 DEF TypeOK
          <5>3. /\ session'[s].status = "active"
                /\ session'[s].energy = Larger(session[s].energy, ctx[l].energy)
            BY <3>2, <5>1, <5>2 DEF Rows
          <5>4. QED BY <4>3, <5>1, <5>3 DEF Larger
        <4> HIDE DEF s
        <4>5. Phases[s] = "open" BY <3>2, <4>1, Mapped
        <4>6. Phases' = Phases BY <3>2, <4>1, <4>2, <4>4, Mapped
        <4>7. Amounts'[s] >= Amounts[s] BY <4>1, <4>4, Mapped
        <4>8. \A t \in Sessions \ {s} : Amounts'[t] = Amounts[t] BY <4>2, Mapped
        <4>9. Amounts' \in [Sessions -> Nat] BY Mapped
        <4>10. Ledger!Accrue(s)
          BY <4>1, <4>5, <4>6, <4>7, <4>8, <4>9 DEF Ledger!Accrue, Ledger!AmountsOutsideKept
        <4>11. QED BY <4>1, <4>10 DEF s
      <3>3. QED BY <2>2, <3>1, <3>2 DEF MeterSession
    <2>3. ASSUME NEW l \in Loops, StopUpdate(l)
          PROVE  (\E S \in SUBSET Sessions : Ledger!Close(S)) \/ UNCHANGED <<session, cdrs>>
      <3> DEFINE rows == ActiveRows(CpOf[l], ctx[l].txn)
      <3>1. cdrs' = cdrs /\ rows \subseteq Sessions /\ \A s \in rows : session[s].status = "active"
        BY <2>3 DEF StopUpdate, ActiveRows
      <3>2. \A s \in Sessions \ rows : session'[s] = session[s]
        BY <2>3 DEF StopUpdate
      <3>3. \A s \in rows : session'[s].status = "completed"
        <4> SUFFICES ASSUME NEW s \in rows PROVE session'[s].status = "completed"
          OBVIOUS
        <4>1. s \in Sessions /\ session[s] \in Rows BY <3>1 DEF TypeOK
        <4>2. session'[s] = [session[s] EXCEPT !.status = "completed",
                                               !.meterStop = ctx[l].reg,
                                               !.energy = ctx[l].energy]
          BY <2>3, <4>1 DEF StopUpdate
        <4>3. QED BY <4>1, <4>2 DEF Rows
      <3> HIDE DEF rows
      <3>4. CASE rows = {}
        <4>1. \A s \in Sessions : session'[s] = session[s] BY <3>2, <3>4
        <4>2. session' = session BY <4>1 DEF TypeOK
        <4>3. QED BY <3>1, <4>2
      <3>5. CASE rows # {}
        <4>1. \A s \in rows : Phases[s] = "open" BY <3>1, Mapped
        <4>2. Phases' = [s \in Sessions |-> IF s \in rows THEN "closed" ELSE Phases[s]]
          BY <3>1, <3>2, <3>3, Mapped
        <4>3. \A s \in Sessions \ rows : Amounts'[s] = Amounts[s] BY <3>2, Mapped
        <4>4. Amounts' \in [Sessions -> Nat] BY Mapped
        <4>5. Ledger!Close(rows)
          BY <3>1, <3>5, <4>1, <4>2, <4>3, <4>4 DEF Ledger!Close, Ledger!AmountsOutsideKept
        <4>6. QED BY <3>1, <4>5
      <3>6. QED BY <3>4, <3>5
    <2>4. ASSUME NEW l \in Loops, CdrInsert(l)
          PROVE  ctx[l].s \in Sessions /\ Ledger!Bill(ctx[l].s)
      <3> DEFINE s == ctx[l].s
      <3>1. /\ s \in Sessions /\ session[s].status = "completed" /\ cdrs[s] = <<>>
            /\ ctx[l].energy = session[s].energy /\ session' = session
        BY <2>4 DEF CdrInsert, BillingInv, HandlersHaveSession, OneSettler, Settles, CdrReadIsCurrent
      <3>2. cdrs' = [cdrs EXCEPT ![s] = <<session[s].energy>>]
        BY <2>4, <3>1 DEF CdrInsert, TypeOK
      <3> HIDE DEF s
      <3>3. Phases[s] = "closed" /\ Amounts[s] = session[s].energy BY <3>1, Mapped
      <3>4. Phases' = Phases /\ Amounts' = Amounts BY <3>1, Mapped
      <3>5. Ledger!Bill(s) BY <3>1, <3>2, <3>3, <3>4 DEF Ledger!Bill
      <3>6. QED BY <3>1, <3>5 DEF s
    <2>5. ASSUME NEW l \in Loops, Receive(l) \/ Fail(l) PROVE UNCHANGED <<session, cdrs>>
      BY <2>5 DEF Receive, RecvStart, RecvStop, RecvMeter, Fail
    <2>6. ASSUME NEW l \in Loops, Continue(l),
                 ~(StartCommit(l) \/ MeterSession(l) \/ StopUpdate(l) \/ CdrInsert(l))
          PROVE  UNCHANGED <<session, cdrs>>
      BY <2>6 DEF Continue, StartRedis, StartEvent, StartLink, StartReply, StopPublic,
           StopRedis, CdrSelect, CdrEvent, StopEvent, MeterRedis, MeterPublic, MeterEvent
    <2>7. ASSUME (\E cp \in ChargePoints : Deliver(cp)) \/ UNCHANGED vars
          PROVE  UNCHANGED <<session, cdrs>>
      BY <2>7 DEF Deliver, vars
    <2>8. ASSUME UNCHANGED <<session, cdrs>> PROVE UNCHANGED Ledger!ledgerVars
      <3>1. Phases' = Phases /\ Amounts' = Amounts /\ cdrs' = cdrs BY <2>8, Mapped
      <3>2. QED BY <3>1 DEF Ledger!ledgerVars
    <2>9. CASE \E l \in Loops : Continue(l)
      BY <2>1, <2>2, <2>3, <2>4, <2>6, <2>8, <2>9 DEF Ledger!Next
    <2>10. QED BY <2>5, <2>7, <2>8, <2>9 DEF Next
  <1>3. QED BY <1>1, <1>2, BillingCorrect, AbsentBlank, PTL DEF Spec, LedgerSpec, Ledger!Spec

-----------------------------------------------------------------------------
(* One connection for each charger: what moves in a step *)

\* No charger has two connections served at the same time.
OneLoopPerCharger == \A k, l \in Loops : CpOf[k] = CpOf[l] => k = l

StartSteps == {"start_redis", "start_event", "start_link", "start_reply"}
StopSteps == {"stop_public", "stop_redis", "cdr_select", "cdr_insert", "cdr_event", "stop_event"}
MeterSteps == {"meter_redis", "meter_session", "meter_public", "meter_event"}

\* Handler l has committed or found session s and works on it.
Serves(l, s) == pc[l] \in StartSteps \cup StopSteps \cup MeterSteps /\ ctx[l].s = s

Committed(s) == session[s].status # "absent"

\* A handler that goes on or is done, the others being where they were.
LEMMA Moves ==
    ASSUME TypeOK, NEW l \in Loops
    PROVE  /\ \A next : Goto(l, next) =>
                /\ pc'[l] = next /\ ctx'[l] = ctx[l]
                /\ \A k \in Loops \ {l} : pc'[k] = pc[k] /\ ctx'[k] = ctx[k]
           /\ Finish(l) =>
                /\ pc'[l] = "idle" /\ ctx'[l] = NoLocals
                /\ \A k \in Loops \ {l} : pc'[k] = pc[k] /\ ctx'[k] = ctx[k]
  BY DEF TypeOK, Goto, Finish

\* A handler's step moves no other handler.
LEMMA OthersKept ==
    ASSUME TypeOK, NEW l \in Loops, NEW k \in Loops, k # l,
           Receive(k) \/ Continue(k) \/ Fail(k)
    PROVE  pc'[l] = pc[l] /\ ctx'[l] = ctx[l]
  <1>1. CASE Receive(k)
    BY <1>1 DEF Receive, RecvStart, RecvStop, RecvMeter, TypeOK
  <1>2. CASE Fail(k)
    BY <1>2, Moves DEF Fail
  <1>3. CASE StopUpdate(k) \/ CdrSelect(k)
    BY <1>3, Moves DEF StopUpdate, CdrSelect, TypeOK
  <1>4. CASE Continue(k) /\ ~StopUpdate(k) /\ ~CdrSelect(k)
    <2>1. Finish(k) \/ \E next : Goto(k, next)
      BY <1>4 DEF Continue, StartCommit, StartRedis, StartEvent, StartLink, StartReply,
         StopPublic, StopRedis, CdrInsert, CdrEvent, StopEvent,
         MeterRedis, MeterSession, MeterPublic, MeterEvent
    <2>2. QED BY <2>1, Moves
  <1>5. QED BY <1>1, <1>2, <1>3, <1>4

\* A handler moves by its own step.
LEMMA OwnMove ==
    ASSUME TypeOK, [Next]_vars, NEW l \in Loops, pc'[l] # pc[l]
    PROVE  Receive(l) \/ Continue(l) \/ Fail(l)
  <1>1. pc' # pc OBVIOUS
  <1>2. ~(\E cp \in ChargePoints : Deliver(cp)) /\ ~UNCHANGED vars
    BY <1>1 DEF Deliver, vars
  <1>3. PICK k \in Loops : Receive(k) \/ Continue(k) \/ Fail(k)
    BY <1>2 DEF Next
  <1>4. QED BY <1>3, OthersKept

\* A handler goes on within StartTransaction, StopTransaction or MeterValues.
GoesOn(l) ==
    \/ pc[l] \in StartSteps /\ pc'[l] \in StartSteps
    \/ pc[l] \in StopSteps /\ pc'[l] \in StopSteps
    \/ pc[l] \in MeterSteps /\ pc'[l] \in MeterSteps

\* The ways a handler can move.
LEMMA HandlerMoves ==
    ASSUME TypeOK, HandlersHaveSession, [Next]_vars, NEW l \in Loops
    PROVE  \/ pc'[l] = pc[l] /\ ctx'[l] = ctx[l]
           \/ pc'[l] = "idle" /\ ctx'[l] = NoLocals
           \/ pc'[l] = "start_commit" /\ \E tag : RecvStart(l, tag)
           \/ pc'[l] = "stop_update" /\ \E txn \in told[CpOf[l]] : RecvStop(l, txn)
           \/ pc'[l] \in {"meter_redis", "meter_event"}
              /\ \E txn \in told[CpOf[l]] : RecvMeter(l, txn)
           \/ pc'[l] = "start_redis" /\ ctx'[l] = ctx[l] /\ StartCommit(l)
           \/ /\ pc'[l] = "stop_public" /\ StopUpdate(l)
              /\ ctx'[l].s \in ActiveRows(CpOf[l], ctx[l].txn)
              /\ ctx'[l].txn = ctx[l].txn /\ ctx'[l].energy = ctx[l].energy
           \/ GoesOn(l) /\ ctx'[l].s = ctx[l].s /\ ctx'[l].txn = ctx[l].txn
  <1> DEFINE Moved ==
         \/ pc'[l] = pc[l] /\ ctx'[l] = ctx[l]
         \/ pc'[l] = "idle" /\ ctx'[l] = NoLocals
         \/ pc'[l] = "start_commit" /\ \E tag : RecvStart(l, tag)
         \/ pc'[l] = "stop_update" /\ \E txn \in told[CpOf[l]] : RecvStop(l, txn)
         \/ pc'[l] \in {"meter_redis", "meter_event"}
            /\ \E txn \in told[CpOf[l]] : RecvMeter(l, txn)
         \/ pc'[l] = "start_redis" /\ ctx'[l] = ctx[l] /\ StartCommit(l)
         \/ /\ pc'[l] = "stop_public" /\ StopUpdate(l)
            /\ ctx'[l].s \in ActiveRows(CpOf[l], ctx[l].txn)
            /\ ctx'[l].txn = ctx[l].txn /\ ctx'[l].energy = ctx[l].energy
         \/ GoesOn(l) /\ ctx'[l].s = ctx[l].s /\ ctx'[l].txn = ctx[l].txn
  <1>1. ASSUME NEW k \in Loops, k # l, Receive(k) \/ Continue(k) \/ Fail(k) PROVE Moved
    BY <1>1, OthersKept
  <1>2. CASE Receive(l)
    <2>1. ASSUME NEW tag, RecvStart(l, tag) PROVE Moved
      BY <2>1 DEF RecvStart, TypeOK
    <2>2. ASSUME NEW txn \in told[CpOf[l]], RecvStop(l, txn) PROVE Moved
      BY <2>2 DEF RecvStop, TypeOK
    <2>3. ASSUME NEW txn \in told[CpOf[l]], RecvMeter(l, txn) PROVE Moved
      BY <2>3 DEF RecvMeter, TypeOK
    <2>4. QED BY <1>2, <2>1, <2>2, <2>3 DEF Receive
  <1>3. CASE StartCommit(l)
    BY <1>3, Moves DEF StartCommit
  <1>4. CASE StartRedis(l) \/ StartEvent(l) \/ StartLink(l) \/ StartReply(l)
    BY <1>4, Moves DEF StartRedis, StartEvent, StartLink, StartReply, GoesOn, StartSteps
  <1>5. CASE StopUpdate(l)
    <2>1. CASE Finish(l) BY <2>1, Moves
    <2>2. CASE \E s \in ActiveRows(CpOf[l], ctx[l].txn) :
                  ctx' = [ctx EXCEPT ![l].s = s] /\ pc' = [pc EXCEPT ![l] = "stop_public"]
      BY <1>5, <2>2 DEF TypeOK, Locals
    <2>3. QED BY <1>5, <2>1, <2>2 DEF StopUpdate
  <1>6. CASE CdrSelect(l)
    BY <1>6 DEF CdrSelect, GoesOn, StopSteps, TypeOK, Locals
  <1>7. CASE StopPublic(l) \/ StopRedis(l) \/ CdrInsert(l) \/ CdrEvent(l) \/ StopEvent(l)
    BY <1>7, Moves DEF StopPublic, StopRedis, CdrInsert, CdrEvent, StopEvent, GoesOn, StopSteps
  <1>8. CASE MeterRedis(l) \/ MeterSession(l) \/ MeterPublic(l) \/ MeterEvent(l)
    BY <1>8, Moves DEF MeterRedis, MeterSession, MeterPublic, MeterEvent, GoesOn, MeterSteps
  <1>9. CASE Fail(l)
    BY <1>9, Moves DEF Fail
  <1>10. CASE (\E cp \in ChargePoints : Deliver(cp)) \/ UNCHANGED vars
    BY <1>10 DEF Deliver, vars
  <1>11. QED BY <1>1, <1>2, <1>3, <1>4, <1>5, <1>6, <1>7, <1>8, <1>9, <1>10 DEF Next, Continue

\* The ways a session row can change: committed, raised by a sample, or closed.
LEMMA RowMoves ==
    ASSUME TypeOK, BillingInv, [Next]_vars, NEW s \in Sessions
    PROVE  \/ session'[s] = session[s]
           \/ \E l \in Loops :
                /\ StartCommit(l) /\ ctx[l].s = s /\ session[s].status = "absent"
                /\ session'[s] = [status |-> "active", cp |-> CpOf[l], txn |-> ctx[l].txn,
                                  meterStart |-> ctx[l].reg, meterStop |-> 0, energy |-> 0]
           \/ /\ session[s].status = "active" /\ session'[s].status = "active"
              /\ session'[s].cp = session[s].cp /\ session'[s].txn = session[s].txn
              /\ session'[s].meterStart = session[s].meterStart
           \/ \E l \in Loops :
                /\ StopUpdate(l) /\ s \in ActiveRows(CpOf[l], ctx[l].txn)
                /\ session'[s].status = "completed"
                /\ session'[s].cp = session[s].cp /\ session'[s].txn = session[s].txn
                /\ session'[s].meterStart = session[s].meterStart
                /\ session'[s].meterStop = ctx[l].reg /\ session'[s].energy = ctx[l].energy
  <1>1. ASSUME NEW l \in Loops, StartCommit(l), ctx[l].s = s
        PROVE  /\ session[s].status = "absent"
               /\ session'[s] = [status |-> "active", cp |-> CpOf[l], txn |-> ctx[l].txn,
                                 meterStart |-> ctx[l].reg, meterStop |-> 0, energy |-> 0]
    BY <1>1 DEF StartCommit, BillingInv, ReservedRowsAbsent, TypeOK
  <1>2. ASSUME NEW l \in Loops, StartCommit(l), ctx[l].s # s
        PROVE  session'[s] = session[s]
    BY <1>2 DEF StartCommit, TypeOK
  <1>3. ASSUME NEW l \in Loops, StopUpdate(l)
        PROVE  \/ session'[s] = session[s]
               \/ /\ s \in ActiveRows(CpOf[l], ctx[l].txn)
                  /\ session'[s].status = "completed"
                  /\ session'[s].cp = session[s].cp /\ session'[s].txn = session[s].txn
                  /\ session'[s].meterStart = session[s].meterStart
                  /\ session'[s].meterStop = ctx[l].reg /\ session'[s].energy = ctx[l].energy
    <2>1. session[s] \in Rows BY DEF TypeOK
    <2>2. CASE s \in ActiveRows(CpOf[l], ctx[l].txn)
      <3>1. session'[s] = [session[s] EXCEPT !.status = "completed", !.meterStop = ctx[l].reg,
                                             !.energy = ctx[l].energy]
        BY <1>3, <2>2 DEF StopUpdate
      <3>2. QED BY <2>1, <2>2, <3>1 DEF Rows
    <2>3. CASE s \notin ActiveRows(CpOf[l], ctx[l].txn)
      BY <1>3, <2>3 DEF StopUpdate
    <2>4. QED BY <2>2, <2>3
  <1>4. ASSUME NEW l \in Loops, MeterSession(l)
        PROVE  \/ session'[s] = session[s]
               \/ /\ session[s].status = "active" /\ session'[s].status = "active"
                  /\ session'[s].cp = session[s].cp /\ session'[s].txn = session[s].txn
                  /\ session'[s].meterStart = session[s].meterStart
    BY <1>4 DEF MeterSession, TypeOK, Rows
  <1>5. ASSUME NEW l \in Loops, Receive(l) \/ Fail(l) PROVE session'[s] = session[s]
    BY <1>5 DEF Receive, RecvStart, RecvStop, RecvMeter, Fail, dbVars
  <1>6. ASSUME NEW l \in Loops, Continue(l), ~StartCommit(l), ~StopUpdate(l), ~MeterSession(l)
        PROVE  session' = session
    BY <1>6 DEF Continue, StartRedis, StartEvent, StartLink, StartReply, StopPublic, dbVars,
         StopRedis, CdrSelect, CdrInsert, CdrEvent, StopEvent, MeterRedis, MeterPublic, MeterEvent
  <1>7. CASE (\E cp \in ChargePoints : Deliver(cp)) \/ UNCHANGED vars
    BY <1>7 DEF Deliver, vars, dbVars
  <1>8. QED BY <1>1, <1>2, <1>3, <1>4, <1>5, <1>6, <1>7 DEF Next

\* What a charger is told: the id of its own StartTransaction.
LEMMA ToldMoves ==
    ASSUME TypeOK, [Next]_vars, NEW cp \in ChargePoints
    PROVE  \/ told'[cp] = told[cp]
           \/ \E l \in Loops : /\ StartReply(l) /\ CpOf[l] = cp
                               /\ told'[cp] = told[cp] \cup {ctx[l].txn}
  <1>1. ASSUME NEW l \in Loops, StartReply(l)
        PROVE  \/ told'[cp] = told[cp]
               \/ CpOf[l] = cp /\ told'[cp] = told[cp] \cup {ctx[l].txn}
    BY <1>1, LoopsAssumption DEF StartReply, TypeOK
  <1>2. ASSUME NEW l \in Loops, Receive(l) \/ Fail(l) PROVE told' = told
    BY <1>2 DEF Receive, RecvStart, RecvStop, RecvMeter, Fail, chargerVars
  <1>3. ASSUME NEW l \in Loops, Continue(l), ~StartReply(l) PROVE told' = told
    BY <1>3 DEF Continue, StartCommit, StartRedis, StartEvent, StartLink, StopUpdate,
         StopPublic, StopRedis, CdrSelect, CdrInsert, CdrEvent, StopEvent,
         MeterRedis, MeterSession, MeterPublic, MeterEvent, chargerVars
  <1>4. CASE (\E c \in ChargePoints : Deliver(c)) \/ UNCHANGED vars
    BY <1>4 DEF Deliver, vars
  <1>5. QED BY <1>1, <1>2, <1>3, <1>4 DEF Next

-----------------------------------------------------------------------------
(* One connection for each charger: transaction ids *)

\* A connection between messages works on no session.
IdleBlank == \A l \in Loops : pc[l] = "idle" => ctx[l].s = NoSession

\* A row belongs to a charger that has a connection, and has an id.
RowsOwned ==
    \A s \in Sessions : Committed(s) =>
        session[s].txn > 0 /\ \E l \in Loops : session[s].cp = CpOf[l]

\* A charger's rows have different ids.
IdsUnique ==
    \A s, t \in Sessions :
        Committed(s) /\ Committed(t)
          /\ session[s].cp = session[t].cp /\ session[s].txn = session[t].txn
        => s = t

\* The id about to be committed is none of the charger's.
FreshIds ==
    \A l \in Loops : pc[l] = "start_commit" =>
        /\ ctx[l].txn > 0
        /\ \A s \in Sessions :
             Committed(s) /\ session[s].cp = CpOf[l] => session[s].txn < ctx[l].txn

\* A handler works on a row of its own charger with the id of its message, which is
\* active until this handler itself has closed it.
ServesOwn ==
    \A l \in Loops, s \in Sessions : Serves(l, s) =>
        /\ session[s].cp = CpOf[l] /\ session[s].txn = ctx[l].txn
        /\ session[s].status = IF pc[l] \in StopSteps THEN "completed" ELSE "active"

\* The ids a charger knows are those of its rows.
ToldKnown ==
    /\ \A cp \in ChargePoints : \A txn \in told[cp] :
         \E s \in Sessions : Committed(s) /\ session[s].cp = cp /\ session[s].txn = txn
    /\ \A l \in Loops : pc[l] = "stop_update" => ctx[l].txn \in told[CpOf[l]]

IdsInv == IdleBlank /\ RowsOwned /\ IdsUnique /\ FreshIds /\ ServesOwn /\ ToldKnown

\* The steps of the three handlers are different ones.
LEMMA StepsApart ==
    /\ "idle" \notin StartSteps \cup StopSteps \cup MeterSteps
    /\ "start_commit" \notin StartSteps \cup StopSteps \cup MeterSteps
    /\ "stop_update" \notin StartSteps \cup StopSteps \cup MeterSteps
    /\ StopSteps \cap (StartSteps \cup MeterSteps) = {}
    /\ "start_redis" \in StartSteps /\ "start_reply" \in StartSteps
    /\ "stop_public" \in StopSteps
    /\ "meter_redis" \in MeterSteps /\ "meter_event" \in MeterSteps
  BY DEF StartSteps, StopSteps, MeterSteps

\* A committed row keeps what identifies it.
LEMMA RowKeeps ==
    ASSUME TypeOK, BillingInv, [Next]_vars, NEW s \in Sessions, Committed(s)
    PROVE  /\ Committed(s)'
           /\ session'[s].cp = session[s].cp /\ session'[s].txn = session[s].txn
           /\ session'[s].meterStart = session[s].meterStart
  BY RowMoves DEF Committed

\* A new row is the one a handler commits.
LEMMA RowAppears ==
    ASSUME TypeOK, BillingInv, [Next]_vars, NEW s \in Sessions, ~Committed(s), Committed(s)'
    PROVE  \E l \in Loops :
             /\ StartCommit(l) /\ ctx[l].s = s /\ pc[l] = "start_commit" /\ pc'[l] = "start_redis"
             /\ \A k \in Loops \ {l} : pc'[k] = pc[k]
             /\ session'[s].status = "active"
             /\ session'[s].cp = CpOf[l] /\ session'[s].txn = ctx[l].txn
             /\ session'[s].meterStart = ctx[l].reg /\ session'[s].energy = 0
  <1>1. PICK l \in Loops :
            /\ StartCommit(l) /\ ctx[l].s = s
            /\ session'[s] = [status |-> "active", cp |-> CpOf[l], txn |-> ctx[l].txn,
                              meterStart |-> ctx[l].reg, meterStop |-> 0, energy |-> 0]
    BY RowMoves, Zenon DEF Committed, ActiveRows
  <1>2. /\ pc[l] = "start_commit" /\ pc'[l] = "start_redis"
        /\ \A k \in Loops \ {l} : pc'[k] = pc[k]
    BY <1>1, Moves DEF StartCommit
  <1>3. QED BY <1>1, <1>2

\* Every step keeps the ids of one charger's sessions apart.
LEMMA UniqueStep ==
    ASSUME OneLoopPerCharger, TypeOK, BillingInv, IdsInv, [Next]_vars
    PROVE  IdsUnique' /\ FreshIds' /\ RowsOwned'
  <1>1. ASSUME NEW s \in Sessions, NEW t \in Sessions, Committed(s)', Committed(t)',
               session'[s].cp = session'[t].cp, session'[s].txn = session'[t].txn,
               ~Committed(s)
        PROVE  s = t
    <2>1. PICK l \in Loops :
              /\ StartCommit(l) /\ ctx[l].s = s /\ pc[l] = "start_commit" /\ pc'[l] = "start_redis"
              /\ \A k \in Loops \ {l} : pc'[k] = pc[k]
              /\ session'[s].cp = CpOf[l] /\ session'[s].txn = ctx[l].txn
      BY <1>1, RowAppears
    <2>2. CASE Committed(t)
      <3>1. session[t].cp = CpOf[l] /\ session[t].txn = ctx[l].txn
        BY <1>1, <2>1, <2>2, RowKeeps
      <3>2. session[t].txn < ctx[l].txn
        BY <2>1, <2>2, <3>1 DEF IdsInv, FreshIds
      <3>3. session[t].txn \in Nat
        BY BoundsAssumption DEF TypeOK, Rows
      <3>4. QED BY <3>1, <3>2, <3>3
    <2>3. CASE ~Committed(t)
      <3>1. PICK k \in Loops : ctx[k].s = t /\ pc[k] = "start_commit" /\ pc'[k] = "start_redis"
        BY <1>1, <2>3, RowAppears
      <3>2. k = l BY <2>1, <3>1
      <3>3. QED BY <2>1, <3>1, <3>2
    <2>4. QED BY <2>2, <2>3
  <1>2. IdsUnique'
    <2> SUFFICES ASSUME NEW s \in Sessions, NEW t \in Sessions, Committed(s)', Committed(t)',
                        session'[s].cp = session'[t].cp, session'[s].txn = session'[t].txn
                 PROVE  s = t
      BY DEF IdsUnique
    <2>1. CASE Committed(s) /\ Committed(t)
      BY <2>1, RowKeeps DEF IdsInv, IdsUnique
    <2>2. QED BY <1>1, <2>1
  <1>3. FreshIds'
    <2> SUFFICES ASSUME NEW l \in Loops, pc'[l] = "start_commit"
                 PROVE  /\ ctx'[l].txn > 0
                        /\ \A s \in Sessions : Committed(s)' /\ session'[s].cp = CpOf[l]
                             => session'[s].txn < ctx'[l].txn
      BY DEF FreshIds
    <2>1. CASE pc[l] = "start_commit" /\ ctx'[l] = ctx[l]
      <3> SUFFICES ASSUME NEW s \in Sessions, Committed(s)', session'[s].cp = CpOf[l]
                   PROVE  session'[s].txn < ctx'[l].txn
        BY <2>1 DEF IdsInv, FreshIds
      <3>1. Committed(s)
        <4>1. SUFFICES ASSUME ~Committed(s) PROVE FALSE OBVIOUS
        <4>2. PICK k \in Loops : session'[s].cp = CpOf[k] /\ pc'[k] = "start_redis"
          BY <4>1, RowAppears
        <4>3. k = l BY <4>2 DEF OneLoopPerCharger
        <4>4. QED BY <4>2, <4>3
      <3>2. QED BY <2>1, <3>1, RowKeeps DEF IdsInv, FreshIds
    <2>2. ASSUME NEW tag, RecvStart(l, tag)
          PROVE  /\ ctx'[l].txn > 0
                 /\ \A s \in Sessions : session'[s] = session[s] /\ session[s].txn < ctx'[l].txn
      <3>1. PICK t \in TxnIds : IsNextTxn(t) /\ ctx'[l].txn = t
        BY <2>2 DEF RecvStart, TypeOK
      <3>2. session' = session BY <2>2 DEF RecvStart, dbVars
      <3>3. QED BY <3>1, <3>2 DEF IsNextTxn, TxnIds
    <2>3. \/ pc[l] = "start_commit" /\ ctx'[l] = ctx[l]
          \/ \E tag : RecvStart(l, tag)
      BY HandlerMoves, StepsApart DEF GoesOn, BillingInv
    <2>4. QED BY <2>1, <2>2, <2>3
  <1>4. RowsOwned'
    <2> SUFFICES ASSUME NEW s \in Sessions, Committed(s)'
                 PROVE  session'[s].txn > 0 /\ \E l \in Loops : session'[s].cp = CpOf[l]
      BY DEF RowsOwned
    <2>1. CASE Committed(s)
      BY <2>1, RowKeeps DEF IdsInv, RowsOwned
    <2>2. CASE ~Committed(s)
      BY <2>2, RowAppears DEF IdsInv, FreshIds
    <2>3. QED BY <2>1, <2>2
  <1>5. QED BY <1>2, <1>3, <1>4

\* Every step keeps handlers to the rows of their own messages.
LEMMA ServesStep ==
    ASSUME OneLoopPerCharger, TypeOK, BillingInv, IdsInv, [Next]_vars
    PROVE  IdleBlank' /\ ServesOwn'
  <1>0. HandlersHaveSession BY DEF BillingInv
  <1>1. IdleBlank'
    <2> SUFFICES ASSUME NEW l \in Loops, pc'[l] = "idle" PROVE ctx'[l].s = NoSession
      BY DEF IdleBlank
    <2>1. \/ pc[l] = "idle" /\ ctx'[l] = ctx[l]
          \/ ctx'[l] = NoLocals
      BY <1>0, HandlerMoves, StepsApart DEF GoesOn
    <2>2. QED BY <2>1 DEF IdsInv, IdleBlank, NoLocals
  <1>2. ASSUME NEW l \in Loops, NEW s \in Sessions, Serves(l, s), pc'[l] = pc[l] \/ GoesOn(l)
        PROVE  /\ session'[s].cp = CpOf[l] /\ session'[s].txn = ctx[l].txn
               /\ session'[s].status = IF pc'[l] \in StopSteps THEN "completed" ELSE "active"
    <2>1. /\ session[s].cp = CpOf[l] /\ session[s].txn = ctx[l].txn
          /\ session[s].status = IF pc[l] \in StopSteps THEN "completed" ELSE "active"
      BY <1>2 DEF IdsInv, ServesOwn
    <2>2. pc'[l] \in StopSteps <=> pc[l] \in StopSteps
      BY <1>2, StepsApart DEF GoesOn
    <2>3. ~\E k \in Loops : StopUpdate(k) /\ s \in ActiveRows(CpOf[k], ctx[k].txn)
      <3>1. SUFFICES ASSUME NEW k \in Loops, StopUpdate(k), s \in ActiveRows(CpOf[k], ctx[k].txn)
                     PROVE  FALSE
        OBVIOUS
      <3>2. k = l BY <2>1, <3>1 DEF ActiveRows, OneLoopPerCharger
      <3>3. pc[l] = "stop_update" BY <3>1, <3>2 DEF StopUpdate
      <3>4. QED BY <1>2, <3>3, StepsApart DEF Serves
    <2>4. session[s].status # "absent" BY <2>1
    <2>5. /\ session'[s].cp = session[s].cp /\ session'[s].txn = session[s].txn
          /\ session'[s].status = session[s].status
      BY <2>3, <2>4, RowMoves
    <2>6. QED BY <2>1, <2>2, <2>5
  <1>3. ServesOwn'
    <2> SUFFICES ASSUME NEW l \in Loops, NEW s \in Sessions, Serves(l, s)'
                 PROVE  /\ session'[s].cp = CpOf[l] /\ session'[s].txn = ctx'[l].txn
                        /\ session'[s].status =
                             IF pc'[l] \in StopSteps THEN "completed" ELSE "active"
      BY DEF ServesOwn
    <2>1. CASE pc'[l] = pc[l] /\ ctx'[l] = ctx[l]
      <3>1. Serves(l, s) BY <2>1 DEF Serves
      <3>2. QED BY <1>2, <2>1, <3>1
    <2>2. CASE GoesOn(l) /\ ctx'[l].s = ctx[l].s /\ ctx'[l].txn = ctx[l].txn
      <3>1. Serves(l, s) BY <2>2 DEF Serves, GoesOn
      <3>2. QED BY <1>2, <2>2, <3>1
    <2>3. ASSUME NEW txn \in told[CpOf[l]], RecvMeter(l, txn)
          PROVE  /\ session'[s].cp = CpOf[l] /\ session'[s].txn = ctx'[l].txn
                 /\ session'[s].status = "active" /\ pc'[l] \in MeterSteps
      <3>1. session' = session /\ pc[l] = "idle" BY <2>3 DEF RecvMeter, dbVars
      <3>2. CASE ctx' = [ctx EXCEPT ![l].txn = txn]
        <4>1. ctx'[l].s = NoSession
          BY <3>1, <3>2 DEF IdsInv, IdleBlank, TypeOK, Locals
        <4>2. QED BY <4>1, NullsAssumption DEF Serves
      <3>3. ASSUME NEW r \in ActiveRows(CpOf[l], txn), pc' = [pc EXCEPT ![l] = "meter_redis"],
                   ctx' = [ctx EXCEPT ![l] =
                        [s |-> r, txn |-> txn, reg |-> register[CpOf[l]],
                         energy |-> SessionEnergy(register[CpOf[l]], session[r].meterStart),
                         tag |-> Rfid]]
            PROVE  /\ session'[s].cp = CpOf[l] /\ session'[s].txn = ctx'[l].txn
                   /\ session'[s].status = "active" /\ pc'[l] \in MeterSteps
        <4>1. ctx'[l].s = r /\ ctx'[l].txn = txn /\ pc'[l] = "meter_redis"
          BY <3>3 DEF TypeOK
        <4>2. s = r BY <4>1 DEF Serves
        <4>3. QED BY <3>1, <3>3, <4>1, <4>2, StepsApart DEF ActiveRows
      <3>4. QED BY <2>3, <3>2, <3>3 DEF RecvMeter
    <2>4. CASE pc'[l] = "start_redis" /\ ctx'[l] = ctx[l] /\ StartCommit(l)
      <3>1. ctx[l].s = s /\ s \in Sessions BY <2>4 DEF Serves
      <3>2. session'[s] = [status |-> "active", cp |-> CpOf[l], txn |-> ctx[l].txn,
                           meterStart |-> ctx[l].reg, meterStop |-> 0, energy |-> 0]
        BY <2>4, <3>1 DEF StartCommit, TypeOK
      <3>3. QED BY <2>4, <3>2, StepsApart
    <2>5. CASE /\ pc'[l] = "stop_public" /\ StopUpdate(l)
               /\ ctx'[l].s \in ActiveRows(CpOf[l], ctx[l].txn) /\ ctx'[l].txn = ctx[l].txn
      <3>1. ctx'[l].s = s BY DEF Serves
      <3>2. session[s].cp = CpOf[l] /\ session[s].txn = ctx[l].txn /\ session[s] \in Rows
        BY <2>5, <3>1 DEF ActiveRows, TypeOK
      <3>3. session'[s] = [session[s] EXCEPT !.status = "completed", !.meterStop = ctx[l].reg,
                                             !.energy = ctx[l].energy]
        BY <2>5, <3>1 DEF StopUpdate
      <3>4. QED BY <2>5, <3>2, <3>3, StepsApart DEF Rows
    <2>6. pc'[l] \notin {"idle", "start_commit", "stop_update"}
      BY StepsApart DEF Serves
    <2>7. QED BY <1>0, <2>1, <2>2, <2>3, <2>4, <2>5, <2>6, HandlerMoves, StepsApart
  <1>4. QED BY <1>1, <1>3

\* Every step keeps what a charger knows true.
LEMMA ToldStep ==
    ASSUME TypeOK, BillingInv, IdsInv, [Next]_vars
    PROVE  ToldKnown'
  <1>0. HandlersHaveSession BY DEF BillingInv
  <1>1. ASSUME NEW cp \in ChargePoints, NEW txn \in told'[cp]
        PROVE  \E s \in Sessions : Committed(s)' /\ session'[s].cp = cp /\ session'[s].txn = txn
    <2>1. CASE txn \in told[cp]
      BY <2>1, RowKeeps DEF IdsInv, ToldKnown
    <2>2. CASE txn \notin told[cp]
      <3>1. PICK l \in Loops : StartReply(l) /\ CpOf[l] = cp /\ txn = ctx[l].txn
        BY <1>1, <2>2, ToldMoves
      <3>2. ctx[l].s \in Sessions /\ Serves(l, ctx[l].s) /\ pc[l] \notin StopSteps
        BY <1>0, <3>1, StepsApart DEF StartReply, HandlersHaveSession, Serves
      <3>3. /\ session[ctx[l].s].cp = cp /\ session[ctx[l].s].txn = txn
            /\ Committed(ctx[l].s)
        BY <3>1, <3>2 DEF IdsInv, ServesOwn, Committed
      <3>4. QED BY <3>2, <3>3, RowKeeps
    <2>3. QED BY <2>1, <2>2
  <1>2. ASSUME NEW l \in Loops, pc'[l] = "stop_update"
        PROVE  ctx'[l].txn \in told'[CpOf[l]]
    <2>1. CpOf[l] \in ChargePoints BY LoopsAssumption
    <2>2. told[CpOf[l]] \subseteq told'[CpOf[l]] BY <2>1, ToldMoves
    <2>3. \/ pc[l] = "stop_update" /\ ctx'[l] = ctx[l]
          \/ \E txn \in told[CpOf[l]] : RecvStop(l, txn)
      BY <1>0, <1>2, HandlerMoves, StepsApart DEF GoesOn
    <2>4. CASE pc[l] = "stop_update" /\ ctx'[l] = ctx[l]
      BY <2>2, <2>4 DEF IdsInv, ToldKnown
    <2>5. ASSUME NEW txn \in told[CpOf[l]], RecvStop(l, txn)
          PROVE  ctx'[l].txn \in told'[CpOf[l]]
      <3>1. ctx'[l].txn = txn BY <2>5 DEF RecvStop, TypeOK
      <3>2. QED BY <2>2, <3>1
    <2>6. QED BY <2>3, <2>4, <2>5
  <1>3. QED BY <1>1, <1>2 DEF ToldKnown

\* With one connection for each charger the ids tell its sessions apart.
LEMMA IdsCorrect == OneLoopPerCharger => (Spec => []IdsInv)
  <1> SUFFICES ASSUME OneLoopPerCharger PROVE Spec => []IdsInv
    OBVIOUS
  <1>1. Init => IdsInv
    BY StepsApart DEF Init, IdsInv, IdleBlank, RowsOwned, IdsUnique, FreshIds, ServesOwn,
       ToldKnown, Committed, Serves, AbsentRow, NoLocals
  <1>2. TypeOK /\ BillingInv /\ IdsInv /\ [Next]_vars => IdsInv'
    BY UniqueStep, ServesStep, ToldStep DEF IdsInv
  <1>3. QED BY <1>1, <1>2, BillingCorrect, PTL DEF Spec

-----------------------------------------------------------------------------
(* A completed session is billed or about to be *)

\* Another session of the charger has the same transaction id.
SharesId(s) ==
    \E t \in Sessions \ {s} :
        Committed(t) /\ session[t].cp = session[s].cp /\ session[t].txn = session[s].txn

\* A completed session without a CDR has a handler that goes on to bill it, or a handler
\* has failed, or the UPDATE of its stop closed another session with the same id and its
\* handler bills that one (handle_stop_transaction takes the first row returned).
BillingUnderWay ==
    \A s \in Sessions : session[s].status = "completed" =>
        cdrs[s] # <<>> \/ fails > 0 \/ SharesId(s) \/ \E l \in Loops : Settles(l, s)

\* A handler that has closed a session goes on to bill it, unless it fails.
LEMMA SettlerGoesOn ==
    ASSUME TypeOK, BillingInv, [Next]_vars, NEW s \in Sessions, NEW l \in Loops, Settles(l, s)
    PROVE  Settles(l, s)' \/ cdrs'[s] # <<>> \/ fails' = fails + 1
  <1> DEFINE Done == Settles(l, s)' \/ cdrs'[s] # <<>> \/ fails' = fails + 1
  <1>0. pc[l] \in {"stop_public", "stop_redis", "cdr_select", "cdr_insert"} /\ ctx[l].s = s
    BY DEF Settles
  <1>1. CASE pc'[l] = pc[l] /\ ctx'[l] = ctx[l]
    BY <1>0, <1>1 DEF Settles
  <1>2. CASE Fail(l)
    BY <1>2 DEF Fail
  <1>3. CASE StopPublic(l) \/ StopRedis(l)
    BY <1>0, <1>3, Moves DEF StopPublic, StopRedis, Settles
  <1>4. CASE CdrSelect(l)
    <2>1. pc'[l] = "cdr_insert" /\ ctx'[l].s = ctx[l].s
      BY <1>4 DEF CdrSelect, TypeOK, Locals
    <2>2. QED BY <1>0, <2>1 DEF Settles
  <1>5. CASE CdrInsert(l)
    <2>1. cdrs[s] \in Seq(Energies) /\ ctx[l].energy \in Energies
      BY DEF TypeOK, Locals
    <2>2. cdrs'[s] = Append(cdrs[s], ctx[l].energy)
      BY <1>0, <1>5 DEF CdrInsert, TypeOK
    <2>3. QED BY <2>1, <2>2, AppendNotEmpty
  <1>6. ASSUME NEW k \in Loops, k # l, Receive(k) \/ Continue(k) \/ Fail(k) PROVE Done
    BY <1>1, <1>6, OthersKept
  <1>7. CASE (\E cp \in ChargePoints : Deliver(cp)) \/ UNCHANGED vars
    BY <1>1, <1>7 DEF Deliver, vars
  <1>8. ~Receive(l)
    BY <1>0 DEF Receive, RecvStart, RecvStop, RecvMeter
  <1>9. CASE Continue(l)
    <2>1. StopPublic(l) \/ StopRedis(l) \/ CdrSelect(l) \/ CdrInsert(l)
      BY <1>0, <1>9 DEF Continue, StartCommit, StartRedis, StartEvent, StartLink, StartReply,
         StopUpdate, CdrEvent, StopEvent, MeterRedis, MeterSession, MeterPublic, MeterEvent
    <2>2. QED BY <1>3, <1>4, <1>5, <2>1
  <1>10. QED BY <1>2, <1>6, <1>7, <1>8, <1>9 DEF Next

\* Failures are counted for good.
LEMMA FailsGrow == ASSUME TypeOK, [Next]_vars PROVE fails \in Nat /\ fails' \in {fails, fails + 1}
  <1>1. ASSUME NEW l \in Loops, Receive(l) \/ Continue(l) PROVE fails' = fails
    BY <1>1 DEF Receive, RecvStart, RecvStop, RecvMeter, Continue, StartCommit, StartRedis,
       StartEvent, StartLink, StartReply, StopUpdate, StopPublic, StopRedis, CdrSelect, CdrInsert,
       CdrEvent, StopEvent, MeterRedis, MeterSession, MeterPublic, MeterEvent
  <1>2. QED BY <1>1 DEF Next, Fail, Deliver, vars, TypeOK

\* Two sessions that share an id go on sharing it.
LEMMA SharingStays ==
    ASSUME TypeOK, BillingInv, [Next]_vars, NEW s \in Sessions, Committed(s), SharesId(s)
    PROVE  SharesId(s)'
  <1>1. PICK t \in Sessions \ {s} :
            Committed(t) /\ session[t].cp = session[s].cp /\ session[t].txn = session[s].txn
    BY DEF SharesId
  <1>2. /\ session'[s].cp = session[s].cp /\ session'[s].txn = session[s].txn
        /\ Committed(t)' /\ session'[t].cp = session[t].cp /\ session'[t].txn = session[t].txn
    BY <1>1, RowKeeps
  <1>3. QED BY <1>1, <1>2 DEF SharesId

\* Who closes a session bills it, or another one with the same id.
LEMMA ClosedIsBilled ==
    ASSUME TypeOK, BillingInv, [Next]_vars, NEW s \in Sessions, NEW l \in Loops, StopUpdate(l),
           s \in ActiveRows(CpOf[l], ctx[l].txn)
    PROVE  Settles(l, s)' \/ SharesId(s)'
  <1>1. PICK t \in ActiveRows(CpOf[l], ctx[l].txn) :
            ctx' = [ctx EXCEPT ![l].s = t] /\ pc' = [pc EXCEPT ![l] = "stop_public"]
    BY DEF StopUpdate
  <1>2. pc'[l] = "stop_public" /\ ctx'[l].s = t
    BY <1>1 DEF TypeOK, Locals
  <1>3. CASE t = s BY <1>2, <1>3 DEF Settles
  <1>4. CASE t # s
    <2>1. /\ t \in Sessions \ {s} /\ Committed(t) /\ Committed(s)
          /\ session[t].cp = session[s].cp /\ session[t].txn = session[s].txn
      BY <1>4 DEF ActiveRows, Committed
    <2>2. SharesId(s) BY <2>1 DEF SharesId
    <2>3. QED BY <2>1, <2>2, SharingStays
  <1>5. QED BY <1>3, <1>4

\* Every step keeps it that a completed session is billed or about to be.
LEMMA UnderWayStep ==
    ASSUME TypeOK, BillingInv, BillingUnderWay, [Next]_vars
    PROVE  BillingUnderWay'
  <1> SUFFICES ASSUME NEW s \in Sessions, session'[s].status = "completed"
               PROVE  cdrs'[s] # <<>> \/ fails' > 0 \/ SharesId(s)' \/ \E l \in Loops : Settles(l, s)'
    BY DEF BillingUnderWay
  <1>1. CASE session[s].status = "completed"
    <2>1. CASE cdrs[s] # <<>>
      BY <2>1, Monotone DEF BillingInv
    <2>2. CASE fails > 0
      BY <2>2, FailsGrow
    <2>3. CASE SharesId(s)
      BY <1>1, <2>3, SharingStays DEF Committed
    <2>4. ASSUME NEW l \in Loops, Settles(l, s)
          PROVE  cdrs'[s] # <<>> \/ fails' > 0 \/ Settles(l, s)'
      BY <2>4, SettlerGoesOn, FailsGrow
    <2>5. QED BY <1>1, <2>1, <2>2, <2>3, <2>4 DEF BillingUnderWay
  <1>2. CASE session[s].status # "completed"
    <2>1. ASSUME NEW l \in Loops,
                 session'[s] = [status |-> "active", cp |-> CpOf[l], txn |-> ctx[l].txn,
                                meterStart |-> ctx[l].reg, meterStop |-> 0, energy |-> 0]
          PROVE  FALSE
      BY <2>1
    <2>2. PICK l \in Loops : StopUpdate(l) /\ s \in ActiveRows(CpOf[l], ctx[l].txn)
      BY <1>2, <2>1, RowMoves, Zenon
    <2>3. QED BY <2>2, ClosedIsBilled
  <1>3. QED BY <1>1, <1>2

\* A completed session is not forgotten: without a failure, and unless two sessions of the
\* charger have the same id, its CDR is there or a handler is on its way to insert it
\* (generate_cdr).
THEOREM CompletedIsBeingBilled == Spec => []BillingUnderWay
  <1>1. Init => BillingUnderWay
    BY DEF Init, BillingUnderWay, AbsentRow
  <1>2. TypeOK /\ BillingInv /\ BillingUnderWay /\ [Next]_vars => BillingUnderWay'
    BY UnderWayStep
  <1>3. QED BY <1>1, <1>2, BillingCorrect, PTL DEF Spec

\* With one connection for each charger no two sessions share an id.
THEOREM SingleLoopIsBeingBilled ==
    OneLoopPerCharger =>
        (Spec => [](\A s \in Sessions : session[s].status = "completed" =>
                        cdrs[s] # <<>> \/ fails > 0 \/ \E l \in Loops : Settles(l, s)))
  <1> SUFFICES ASSUME OneLoopPerCharger
               PROVE  Spec => [](\A s \in Sessions : session[s].status = "completed" =>
                        cdrs[s] # <<>> \/ fails > 0 \/ \E l \in Loops : Settles(l, s))
    OBVIOUS
  <1>1. BillingUnderWay /\ IdsInv =>
            \A s \in Sessions : session[s].status = "completed" =>
                cdrs[s] # <<>> \/ fails > 0 \/ \E l \in Loops : Settles(l, s)
    BY DEF BillingUnderWay, SharesId, IdsInv, IdsUnique, Committed
  <1>2. Spec => []IdsInv BY IdsCorrect
  <1>3. QED BY <1>1, <1>2, CompletedIsBeingBilled, PTL

-----------------------------------------------------------------------------
(* One connection for each charger: announcements *)

\* What is published of a session, and by which step.
LEMMA EmitMoves ==
    ASSUME TypeOK, HandlersHaveSession, [Next]_vars, NEW s \in Sessions
    PROVE  \/ emitted'[s] = emitted[s]
           \/ \E l \in Loops :
                /\ ctx[l].s = s
                /\ \/ pc[l] = "start_event" /\ emitted'[s] = emitted[s] \cup {"start"}
                   \/ pc[l] = "meter_event" /\ emitted'[s] = emitted[s] \cup {"meter"}
                   \/ pc[l] = "cdr_event" /\ emitted'[s] = emitted[s] \cup {"cdr"}
                   \/ pc[l] = "stop_event" /\ emitted'[s] = emitted[s] \cup {"stop"}
  <1>1. ASSUME NEW l \in Loops, NEW type, Publish(ctx[l].s, type)
        PROVE  \/ emitted'[s] = emitted[s]
               \/ ctx[l].s = s /\ emitted'[s] = emitted[s] \cup {type}
    BY <1>1 DEF Publish, TypeOK
  <1>2. ASSUME NEW l \in Loops, StartEvent(l) \/ MeterEvent(l) \/ CdrEvent(l) \/ StopEvent(l)
        PROVE  \/ emitted'[s] = emitted[s]
               \/ pc[l] = "start_event" /\ Publish(ctx[l].s, "start")
               \/ pc[l] = "meter_event" /\ Publish(ctx[l].s, "meter")
               \/ pc[l] = "cdr_event" /\ Publish(ctx[l].s, "cdr")
               \/ pc[l] = "stop_event" /\ Publish(ctx[l].s, "stop")
    BY <1>2 DEF StartEvent, MeterEvent, CdrEvent, StopEvent
  <1>3. ASSUME NEW l \in Loops, Receive(l) \/ Fail(l) PROVE emitted' = emitted
    BY <1>3 DEF Receive, RecvStart, RecvStop, RecvMeter, Fail
  <1>4. ASSUME NEW l \in Loops, Continue(l),
               ~(StartEvent(l) \/ MeterEvent(l) \/ CdrEvent(l) \/ StopEvent(l))
        PROVE  emitted' = emitted
    BY <1>4 DEF Continue, StartCommit, StartRedis, StartLink, StartReply, StopUpdate,
         StopPublic, StopRedis, CdrSelect, CdrInsert, MeterRedis, MeterSession, MeterPublic
  <1>5. CASE (\E cp \in ChargePoints : Deliver(cp)) \/ UNCHANGED vars
    BY <1>5 DEF Deliver, vars
  <1>6. QED BY <1>1, <1>2, <1>3, <1>4, <1>5 DEF Next

\* What becomes of a session's live state, and by which step.
LEMMA LiveMoves ==
    ASSUME TypeOK, HandlersHaveSession, [Next]_vars, NEW s \in Sessions
    PROVE  \/ live'[s] = live[s]
           \/ \E l \in Loops :
                /\ ctx[l].s = s
                /\ \/ pc[l] \in {"start_redis", "meter_redis"}
                   \/ pc[l] = "stop_redis" /\ live'[s] = "none"
  <1>1. ASSUME NEW l \in Loops, StartRedis(l) \/ MeterRedis(l) \/ StopRedis(l)
        PROVE  \/ live'[s] = live[s]
               \/ /\ ctx[l].s = s
                  /\ \/ pc[l] \in {"start_redis", "meter_redis"}
                     \/ pc[l] = "stop_redis" /\ live'[s] = "none"
    BY <1>1 DEF StartRedis, MeterRedis, StopRedis, TypeOK
  <1>2. ASSUME NEW l \in Loops, Receive(l) \/ Fail(l) PROVE live' = live
    BY <1>2 DEF Receive, RecvStart, RecvStop, RecvMeter, Fail
  <1>3. ASSUME NEW l \in Loops, Continue(l), ~(StartRedis(l) \/ MeterRedis(l) \/ StopRedis(l))
        PROVE  live' = live
    BY <1>3 DEF Continue, StartCommit, StartEvent, StartLink, StartReply, StopUpdate,
         StopPublic, CdrSelect, CdrInsert, CdrEvent, StopEvent, MeterSession, MeterPublic, MeterEvent
  <1>4. CASE (\E cp \in ChargePoints : Deliver(cp)) \/ UNCHANGED vars
    BY <1>4 DEF Deliver, vars
  <1>5. QED BY <1>1, <1>2, <1>3, <1>4 DEF Next

\* The steps after the live state of a stopped session was deleted.
AfterDelete == {"cdr_select", "cdr_insert", "cdr_event", "stop_event"}

\* The start of a session whose id the charger knows was announced.
ToldAnnounced ==
    \A cp \in ChargePoints, s \in Sessions :
        Committed(s) /\ session[s].cp = cp /\ session[s].txn \in told[cp]
        => "start" \in emitted[s]

\* So was that of a session a handler works on, but for the handler that starts it.
Announced ==
    \A l \in Loops, s \in Sessions :
        Serves(l, s) /\ pc[l] \notin {"start_redis", "start_event"} => "start" \in emitted[s]

StopsCompleted == \A s \in Sessions : "stop" \in emitted[s] => session[s].status = "completed"

\* What StopTransaction deleted from the live state stays deleted while it ends.
Forgotten ==
    \A l \in Loops, s \in Sessions :
        Serves(l, s) /\ pc[l] \in AfterDelete => live[s] = "none"

NewsInv ==
    /\ ToldAnnounced /\ Announced /\ StartAnnouncedFirst
    /\ StopsCompleted /\ Forgotten /\ LiveStateForgets

\* A session is served by the connection of its own charger only.
LEMMA OneServer ==
    ASSUME OneLoopPerCharger, IdsInv, NEW s \in Sessions, NEW k \in Loops, NEW l \in Loops,
           Serves(k, s), Serves(l, s)
    PROVE  k = l
  BY DEF OneLoopPerCharger, IdsInv, ServesOwn

\* The order of the steps around the event and around the deletion.
LEMMA StepOrder ==
    ASSUME TypeOK, HandlersHaveSession, [Next]_vars, NEW l \in Loops, pc'[l] # pc[l]
    PROVE  /\ pc[l] \in {"start_redis", "start_event"}
                /\ pc'[l] \notin {"idle", "start_redis", "start_event"}
              => "start" \in emitted'[ctx[l].s]
           /\ pc'[l] \in AfterDelete => pc[l] \in AfterDelete \/ StopRedis(l)
  <1>1. CASE Receive(l)
    BY <1>1 DEF Receive, RecvStart, RecvStop, RecvMeter, TypeOK, AfterDelete
  <1>2. CASE Fail(l)
    BY <1>2, Moves DEF Fail, AfterDelete
  <1>3. CASE StartRedis(l)
    BY <1>3, Moves DEF StartRedis, AfterDelete
  <1>4. CASE StartEvent(l)
    <2>1. ctx[l].s \in Sessions /\ Publish(ctx[l].s, "start") /\ pc'[l] \in {"start_link", "start_reply"}
      BY <1>4, Moves DEF StartEvent, HandlersHaveSession
    <2>2. "start" \in emitted'[ctx[l].s] BY <2>1 DEF Publish, TypeOK
    <2>3. QED BY <2>1, <2>2 DEF AfterDelete
  <1>5. CASE StopUpdate(l)
    BY <1>5, Moves DEF StopUpdate, AfterDelete, TypeOK
  <1>6. CASE StartCommit(l) \/ StartLink(l) \/ StartReply(l) \/ StopPublic(l)
    <2>1. /\ pc[l] \notin {"start_redis", "start_event"}
          /\ Finish(l) \/ \E next \in {"start_redis", "start_reply", "stop_redis"} : Goto(l, next)
      BY <1>6 DEF StartCommit, StartLink, StartReply, StopPublic
    <2>2. pc'[l] \in {"idle", "start_redis", "start_reply", "stop_redis"}
      BY <2>1, Moves
    <2>3. QED BY <2>1, <2>2 DEF AfterDelete
  <1>7. CASE MeterRedis(l) \/ MeterSession(l) \/ MeterPublic(l) \/ MeterEvent(l)
    BY <1>7, Moves DEF MeterRedis, MeterSession, MeterPublic, MeterEvent, AfterDelete
  <1>8. CASE StopRedis(l) \/ CdrSelect(l) \/ CdrInsert(l) \/ CdrEvent(l) \/ StopEvent(l)
    BY <1>8 DEF StopRedis, CdrSelect, CdrInsert, CdrEvent, StopEvent, AfterDelete
  <1>9. QED BY <1>1, <1>2, <1>3, <1>4, <1>5, <1>6, <1>7, <1>8, OwnMove DEF Continue

\* Every step keeps it that the starts were announced.
LEMMA StartNewsStep ==
    ASSUME OneLoopPerCharger, TypeOK, BillingInv, IdsInv, NewsInv, [Next]_vars
    PROVE  ToldAnnounced' /\ Announced' /\ StartAnnouncedFirst'
  <1>0. HandlersHaveSession BY DEF BillingInv
  <1>1. \A s \in Sessions : emitted[s] \subseteq emitted'[s]
    BY <1>0, Monotone
  <1>2. ToldAnnounced'
    <2> SUFFICES ASSUME NEW cp \in ChargePoints, NEW s \in Sessions, Committed(s)',
                        session'[s].cp = cp, session'[s].txn \in told'[cp]
                 PROVE  "start" \in emitted'[s]
      BY DEF ToldAnnounced
    <2>1. Committed(s)
      <3>1. SUFFICES ASSUME ~Committed(s) PROVE FALSE OBVIOUS
      <3>2. PICK l \in Loops :
                /\ pc[l] = "start_commit" /\ pc'[l] = "start_redis"
                /\ \A k \in Loops \ {l} : pc'[k] = pc[k]
                /\ session'[s].cp = CpOf[l] /\ session'[s].txn = ctx[l].txn
        BY <3>1, RowAppears
      <3>3. ~\E k \in Loops : StartReply(k)
        BY <3>2, Moves DEF StartReply
      <3>4. ctx[l].txn \in told[cp] BY <3>2, <3>3, ToldMoves
      <3>5. PICK t \in Sessions :
                Committed(t) /\ session[t].cp = CpOf[l] /\ session[t].txn = ctx[l].txn
        BY <3>2, <3>4 DEF IdsInv, ToldKnown
      <3>6. session[t].txn < ctx[l].txn /\ session[t].txn \in Nat
        BY <3>2, <3>5, BoundsAssumption DEF IdsInv, FreshIds, TypeOK, Rows
      <3>7. QED BY <3>5, <3>6
    <2>2. session[s].cp = cp /\ session[s].txn = session'[s].txn
      BY <2>1, RowKeeps
    <2>3. CASE session[s].txn \in told[cp]
      BY <1>1, <2>1, <2>2, <2>3 DEF NewsInv, ToldAnnounced
    <2>4. CASE session[s].txn \notin told[cp]
      <3>1. PICK l \in Loops : StartReply(l) /\ CpOf[l] = cp /\ session[s].txn = ctx[l].txn
        BY <2>2, <2>4, ToldMoves
      <3>2. ctx[l].s \in Sessions /\ Serves(l, ctx[l].s) /\ pc[l] = "start_reply"
        BY <1>0, <3>1, StepsApart DEF StartReply, HandlersHaveSession, Serves
      <3>3. /\ session[ctx[l].s].cp = cp /\ session[ctx[l].s].txn = ctx[l].txn
            /\ Committed(ctx[l].s)
        BY <3>1, <3>2 DEF IdsInv, ServesOwn, Committed
      <3>4. ctx[l].s = s BY <2>1, <2>2, <3>1, <3>2, <3>3 DEF IdsInv, IdsUnique
      <3>5. QED BY <1>1, <3>2, <3>4 DEF NewsInv, Announced
    <2>5. QED BY <2>3, <2>4
  <1>3. Announced'
    <2> SUFFICES ASSUME NEW l \in Loops, NEW s \in Sessions, Serves(l, s)',
                        pc'[l] \notin {"start_redis", "start_event"}
                 PROVE  "start" \in emitted'[s]
      BY DEF Announced
    <2>1. CASE Serves(l, s) /\ pc[l] \notin {"start_redis", "start_event"}
      BY <1>1, <2>1 DEF NewsInv, Announced
    <2>2. CASE Serves(l, s) /\ pc[l] \in {"start_redis", "start_event"}
      BY <1>0, <2>2, StepOrder, StepsApart DEF Serves
    <2>3. ASSUME NEW txn \in told[CpOf[l]], s \in ActiveRows(CpOf[l], txn)
          PROVE  "start" \in emitted'[s]
      <3>1. CpOf[l] \in ChargePoints BY LoopsAssumption
      <3>2. Committed(s) /\ session[s].cp = CpOf[l] /\ session[s].txn = txn
        BY <2>3 DEF ActiveRows, Committed
      <3>3. QED BY <1>1, <2>3, <3>1, <3>2 DEF NewsInv, ToldAnnounced
    <2>4. ASSUME NEW txn \in told[CpOf[l]], RecvMeter(l, txn)
          PROVE  "start" \in emitted'[s]
      <3>1. CASE ctx' = [ctx EXCEPT ![l].txn = txn]
        <4>1. ctx'[l].s = NoSession
          BY <2>4, <3>1 DEF RecvMeter, IdsInv, IdleBlank, TypeOK, Locals
        <4>2. QED BY <4>1, NullsAssumption DEF Serves
      <3>2. CASE ctx'[l].s \in ActiveRows(CpOf[l], txn)
        BY <2>3, <3>2 DEF Serves
      <3>3. QED BY <2>4, <3>1, <3>2 DEF RecvMeter, TypeOK
    <2>5. CASE StopUpdate(l) /\ ctx'[l].s \in ActiveRows(CpOf[l], ctx[l].txn)
      <3>1. ctx[l].txn \in told[CpOf[l]]
        BY <2>5 DEF StopUpdate, IdsInv, ToldKnown
      <3>2. QED BY <2>3, <2>5, <3>1 DEF Serves
    <2>6. CASE (pc'[l] = pc[l] /\ ctx'[l] = ctx[l]) \/ (GoesOn(l) /\ ctx'[l].s = ctx[l].s)
      <3>1. Serves(l, s) BY <2>6 DEF Serves, GoesOn
      <3>2. QED BY <2>1, <2>2, <3>1
    <2>7. pc'[l] \notin {"idle", "start_commit", "stop_update", "start_redis"}
      BY StepsApart DEF Serves
    <2>8. QED BY <1>0, <2>4, <2>5, <2>6, <2>7, HandlerMoves
  <1>4. StartAnnouncedFirst'
    <2> SUFFICES ASSUME NEW s \in Sessions, emitted'[s] # {} PROVE "start" \in emitted'[s]
      BY DEF StartAnnouncedFirst
    <2>1. CASE emitted[s] # {}
      BY <1>1, <2>1 DEF NewsInv, StartAnnouncedFirst
    <2>2. CASE emitted[s] = {}
      <3>1. PICK l \in Loops :
                /\ ctx[l].s = s
                /\ \/ "start" \in emitted'[s]
                   \/ pc[l] \in {"meter_event", "cdr_event", "stop_event"}
        BY <1>0, <2>2, EmitMoves
      <3>2. CASE pc[l] \in {"meter_event", "cdr_event", "stop_event"}
        <4>1. Serves(l, s) BY <3>1, <3>2 DEF Serves, StopSteps, MeterSteps
        <4>2. QED BY <1>1, <3>2, <4>1 DEF NewsInv, Announced
      <3>3. QED BY <3>1, <3>2
    <2>3. QED BY <2>1, <2>2
  <1>5. QED BY <1>2, <1>3, <1>4

\* Every step keeps it that what was stopped is forgotten.
LEMMA StopNewsStep ==
    ASSUME OneLoopPerCharger, TypeOK, BillingInv, IdsInv, NewsInv, [Next]_vars
    PROVE  StopsCompleted' /\ Forgotten' /\ LiveStateForgets'
  <1>0. HandlersHaveSession BY DEF BillingInv
  <1>1. ASSUME NEW s \in Sessions, "stop" \in emitted'[s], "stop" \notin emitted[s]
        PROVE  \E l \in Loops : Serves(l, s) /\ pc[l] = "stop_event"
    <2>1. PICK l \in Loops : ctx[l].s = s /\ pc[l] = "stop_event"
      BY <1>0, <1>1, EmitMoves
    <2>2. QED BY <2>1 DEF Serves, StopSteps
  <1>2. ASSUME NEW s \in Sessions, "stop" \in emitted'[s]
        PROVE  session[s].status = "completed"
    BY <1>1, <1>2 DEF NewsInv, StopsCompleted, IdsInv, ServesOwn, StopSteps
  <1>3. StopsCompleted'
    <2>1. \A s \in Sessions :
            session[s].status = "completed" => session'[s].status = "completed"
      BY RowStep
    <2>2. QED BY <1>2, <2>1 DEF StopsCompleted
  <1>4. ASSUME NEW s \in Sessions, live[s] = "none", NEW l \in Loops,
               Serves(l, s), pc[l] \in AfterDelete
        PROVE  live'[s] = "none"
    <2>1. SUFFICES ASSUME NEW k \in Loops, ctx[k].s = s, pc[k] \in {"start_redis", "meter_redis"}
                   PROVE  FALSE
      BY <1>0, <1>4, LiveMoves
    <2>2. Serves(k, s) BY <2>1, StepsApart DEF Serves
    <2>3. k = l BY <1>4, <2>2, OneServer
    <2>4. QED BY <1>4, <2>1, <2>3 DEF AfterDelete
  <1>5. Forgotten'
    <2> SUFFICES ASSUME NEW l \in Loops, NEW s \in Sessions, Serves(l, s)',
                        pc'[l] \in AfterDelete
                 PROVE  live'[s] = "none"
      BY DEF Forgotten
    <2>1. CASE StopRedis(l)
      <3>1. ctx[l].s = s BY <2>1, Moves DEF StopRedis, Serves
      <3>2. QED BY <2>1, <3>1 DEF StopRedis, TypeOK
    <2>2. CASE pc[l] \in AfterDelete
      <3>1. ctx'[l].s = ctx[l].s
        <4>1. pc'[l] \notin {"idle", "start_commit", "stop_update", "meter_redis",
                             "meter_event", "start_redis", "stop_public"}
          BY DEF AfterDelete
        <4>2. QED BY <1>0, <4>1, HandlerMoves
      <3>2. Serves(l, s) BY <2>2, <3>1 DEF Serves, AfterDelete, StopSteps
      <3>3. live[s] = "none" BY <2>2, <3>2 DEF NewsInv, Forgotten
      <3>4. QED BY <1>4, <2>2, <3>2, <3>3
    <2>3. QED BY <1>0, <2>1, <2>2, StepOrder
  <1>6. LiveStateForgets'
    <2> SUFFICES ASSUME NEW s \in Sessions, "stop" \in emitted'[s] PROVE live'[s] = "none"
      BY DEF LiveStateForgets
    <2>1. live[s] = "none"
      BY <1>1 DEF NewsInv, LiveStateForgets, Forgotten, AfterDelete
    <2>2. SUFFICES ASSUME NEW k \in Loops, ctx[k].s = s, pc[k] \in {"start_redis", "meter_redis"}
                   PROVE  FALSE
      BY <1>0, <2>1, LiveMoves
    <2>3. Serves(k, s) /\ pc[k] \notin StopSteps BY <2>2, StepsApart DEF Serves
    <2>4. QED BY <1>2, <2>3 DEF IdsInv, ServesOwn
  <1>7. QED BY <1>3, <1>5, <1>6

\* With one connection for each charger nothing is published of a session before its
\* start, and when its stop is published the live state has dropped it for good.
THEOREM AnnouncementsCorrect == OneLoopPerCharger => (Spec => []AnnouncementsFit)
  <1> SUFFICES ASSUME OneLoopPerCharger PROVE Spec => []AnnouncementsFit
    OBVIOUS
  <1>1. Init => NewsInv
    BY StepsApart DEF Init, NewsInv, ToldAnnounced, Announced, StartAnnouncedFirst, StopsCompleted,
       Forgotten, LiveStateForgets, Committed, Serves, AbsentRow
  <1>2. TypeOK /\ BillingInv /\ IdsInv /\ NewsInv /\ [Next]_vars => NewsInv'
    BY StartNewsStep, StopNewsStep DEF NewsInv
  <1>3. NewsInv => AnnouncementsFit
    BY DEF NewsInv, AnnouncementsFit
  <1>4. Spec => []IdsInv BY IdsCorrect
  <1>5. QED BY <1>1, <1>2, <1>3, <1>4, BillingCorrect, PTL DEF Spec

-----------------------------------------------------------------------------
(* One connection for each charger: the energy billed *)

\* A session's start reading, also of one about to be committed, is at most what its
\* charger's register shows now.
RegisterAhead ==
    /\ \A s \in Sessions :
         Committed(s) => session[s].meterStart <= register[session[s].cp]
    /\ \A l \in Loops : pc[l] = "start_commit" => ctx[l].reg <= register[CpOf[l]]

\* What StopTransaction computed is the energy of every row its UPDATE will close.
StopExact ==
    \A l \in Loops : pc[l] = "stop_update" =>
        \A s \in ActiveRows(CpOf[l], ctx[l].txn) :
            /\ session[s].meterStart <= ctx[l].reg
            /\ ctx[l].energy = SessionEnergy(ctx[l].reg, session[s].meterStart)

CompletedExact ==
    \A s \in Sessions :
        session[s].status = "completed" /\ session[s].meterStart > 0
        => session[s].energy = session[s].meterStop - session[s].meterStart

MeterInv == RegisterAhead /\ StopExact /\ CompletedExact

\* The readings of chargers, rows and handlers are numbers.
LEMMA ReadingTypes ==
    ASSUME TypeOK
    PROVE  /\ \A cp \in ChargePoints : register[cp] \in Nat
           /\ \A s \in Sessions : session[s].meterStart \in Nat
           /\ \A l \in Loops : ctx[l].reg \in Nat
  BY BoundsAssumption DEF TypeOK, Rows, Locals, Energies

\* A charger's register never runs backwards.
LEMMA RegisterMoves ==
    ASSUME TypeOK, [Next]_vars, NEW cp \in ChargePoints
    PROVE  register'[cp] \in Nat /\ register[cp] <= register'[cp]
  <1>0. register[cp] \in Nat BY ReadingTypes
  <1>1. ASSUME NEW c \in ChargePoints, Deliver(c)
        PROVE  register'[cp] = register[cp] \/ register'[cp] = register[cp] + 1
    BY <1>1 DEF Deliver, TypeOK
  <1>2. ASSUME NEW l \in Loops, Receive(l) \/ Fail(l) PROVE register' = register
    BY <1>2 DEF Receive, RecvStart, RecvStop, RecvMeter, Fail, chargerVars
  <1>3. ASSUME NEW l \in Loops, Continue(l) PROVE register' = register
    BY <1>3 DEF Continue, StartCommit, StartRedis, StartEvent, StartLink, StartReply, StopUpdate,
         StopPublic, StopRedis, CdrSelect, CdrInsert, CdrEvent, StopEvent,
         MeterRedis, MeterSession, MeterPublic, MeterEvent, chargerVars
  <1>4. CASE UNCHANGED vars BY <1>0, <1>4 DEF vars
  <1>5. QED BY <1>0, <1>1, <1>2, <1>3, <1>4 DEF Next

\* Every step keeps start readings behind the register.
LEMMA AheadStep ==
    ASSUME TypeOK, BillingInv, IdsInv, RegisterAhead, [Next]_vars
    PROVE  RegisterAhead'
  <1>0. HandlersHaveSession BY DEF BillingInv
  <1>1. \A l \in Loops : CpOf[l] \in ChargePoints BY LoopsAssumption
  <1>2. ASSUME NEW s \in Sessions, Committed(s)'
        PROVE  session'[s].meterStart <= register'[session'[s].cp]
    <2>1. CASE Committed(s)
      <3>1. session[s].cp \in ChargePoints BY <1>1, <2>1 DEF IdsInv, RowsOwned
      <3>2. session[s].meterStart <= register[session[s].cp] BY <2>1 DEF RegisterAhead
      <3>3. /\ session'[s].cp = session[s].cp
            /\ session'[s].meterStart = session[s].meterStart
        BY <2>1, RowKeeps
      <3>4. QED BY <3>1, <3>2, <3>3, RegisterMoves, ReadingTypes
    <2>2. CASE ~Committed(s)
      <3>1. PICK l \in Loops : /\ pc[l] = "start_commit" /\ session'[s].cp = CpOf[l]
                               /\ session'[s].meterStart = ctx[l].reg
        BY <1>2, <2>2, RowAppears
      <3>2. ctx[l].reg <= register[CpOf[l]] BY <3>1 DEF RegisterAhead
      <3>3. QED BY <1>1, <3>1, <3>2, RegisterMoves, ReadingTypes
    <2>3. QED BY <2>1, <2>2
  <1>3. ASSUME NEW l \in Loops, pc'[l] = "start_commit"
        PROVE  ctx'[l].reg <= register'[CpOf[l]]
    <2>1. \/ pc[l] = "start_commit" /\ ctx'[l] = ctx[l]
          \/ \E tag : RecvStart(l, tag)
      BY <1>0, <1>3, HandlerMoves, StepsApart DEF GoesOn
    <2>2. CASE pc[l] = "start_commit" /\ ctx'[l] = ctx[l]
      <3>1. ctx[l].reg <= register[CpOf[l]] BY <2>2 DEF RegisterAhead
      <3>2. QED BY <1>1, <2>2, <3>1, RegisterMoves, ReadingTypes
    <2>3. ASSUME NEW tag, RecvStart(l, tag) PROVE ctx'[l].reg <= register'[CpOf[l]]
      <3>1. ctx'[l].reg = register[CpOf[l]] BY <2>3 DEF RecvStart, TypeOK
      <3>2. QED BY <1>1, <3>1, RegisterMoves, ReadingTypes
    <2>4. QED BY <2>1, <2>2, <2>3
  <1>4. QED BY <1>2, <1>3 DEF RegisterAhead

\* Every step keeps it that a stop in progress has the energy of its row.
LEMMA StopExactStep ==
    ASSUME OneLoopPerCharger, TypeOK, BillingInv, IdsInv, MeterInv, [Next]_vars
    PROVE  StopExact'
  <1>0. HandlersHaveSession BY DEF BillingInv
  <1> SUFFICES ASSUME NEW l \in Loops, pc'[l] = "stop_update", NEW s \in Sessions,
                      session'[s].status = "active", session'[s].cp = CpOf[l],
                      session'[s].txn = ctx'[l].txn
               PROVE  /\ session'[s].meterStart <= ctx'[l].reg
                      /\ ctx'[l].energy = SessionEnergy(ctx'[l].reg, session'[s].meterStart)
    BY DEF StopExact, ActiveRows
  <1>1. CASE pc[l] = "stop_update" /\ ctx'[l] = ctx[l]
    <2>1. Committed(s)
      <3>1. SUFFICES ASSUME ~Committed(s) PROVE FALSE OBVIOUS
      <3>2. PICK k \in Loops : pc[k] = "start_commit" /\ session'[s].cp = CpOf[k]
        BY <3>1, RowAppears DEF Committed
      <3>3. k = l BY <3>2 DEF OneLoopPerCharger
      <3>4. QED BY <1>1, <3>2, <3>3
    <2>2. /\ session'[s].cp = session[s].cp /\ session'[s].txn = session[s].txn
          /\ session'[s].meterStart = session[s].meterStart
      BY <2>1, RowKeeps
    <2>3. session[s].status = "active"
      BY <2>1, RowMoves DEF Committed
    <2>4. s \in ActiveRows(CpOf[l], ctx[l].txn)
      BY <1>1, <2>2, <2>3 DEF ActiveRows
    <2>5. QED BY <1>1, <2>2, <2>4 DEF MeterInv, StopExact
  <1>2. ASSUME NEW txn, RecvStop(l, txn)
        PROVE  /\ session'[s].meterStart <= ctx'[l].reg
               /\ ctx'[l].energy = SessionEnergy(ctx'[l].reg, session'[s].meterStart)
    <2>1. session' = session BY <1>2 DEF RecvStop, dbVars
    <2>2. PICK r \in ActiveRows(CpOf[l], txn) :
              ctx' = [ctx EXCEPT ![l] =
                        [s |-> NoSession, txn |-> txn, reg |-> register[CpOf[l]],
                         energy |-> SessionEnergy(register[CpOf[l]], session[r].meterStart),
                         tag |-> Rfid]]
      BY <1>2 DEF RecvStop
    <2>3. /\ ctx'[l].txn = txn /\ ctx'[l].reg = register[CpOf[l]]
          /\ ctx'[l].energy = SessionEnergy(register[CpOf[l]], session[r].meterStart)
      BY <2>2 DEF TypeOK
    <2>4. r = s
      BY <2>1, <2>2, <2>3 DEF ActiveRows, Committed, IdsInv, IdsUnique
    <2>5. session[s].meterStart <= register[CpOf[l]]
      BY <2>1 DEF MeterInv, RegisterAhead, Committed
    <2>6. QED BY <2>1, <2>3, <2>4, <2>5
  <1>3. \/ pc[l] = "stop_update" /\ ctx'[l] = ctx[l]
        \/ \E txn \in told[CpOf[l]] : RecvStop(l, txn)
    BY <1>0, HandlerMoves, StepsApart DEF GoesOn
  <1>4. QED BY <1>1, <1>2, <1>3

\* Every step keeps a completed row's energy the difference of its readings.
LEMMA CompletedExactStep ==
    ASSUME TypeOK, BillingInv, MeterInv, [Next]_vars
    PROVE  CompletedExact'
  <1> SUFFICES ASSUME NEW s \in Sessions, session'[s].status = "completed",
                      session'[s].meterStart > 0
               PROVE  session'[s].energy = session'[s].meterStop - session'[s].meterStart
    BY DEF CompletedExact
  <1>1. CASE session'[s] = session[s]
    BY <1>1 DEF MeterInv, CompletedExact
  <1>2. ASSUME NEW l \in Loops, StopUpdate(l), s \in ActiveRows(CpOf[l], ctx[l].txn),
               session'[s].meterStart = session[s].meterStart,
               session'[s].meterStop = ctx[l].reg, session'[s].energy = ctx[l].energy
        PROVE  session'[s].energy = session'[s].meterStop - session'[s].meterStart
    <2>1. pc[l] = "stop_update" BY <1>2 DEF StopUpdate
    <2>2. /\ session[s].meterStart <= ctx[l].reg
          /\ ctx[l].energy = SessionEnergy(ctx[l].reg, session[s].meterStart)
      BY <1>2, <2>1 DEF MeterInv, StopExact
    <2>3. SessionEnergy(ctx[l].reg, session[s].meterStart) = ctx[l].reg - session[s].meterStart
      BY <1>2, <2>2, ReadingTypes DEF SessionEnergy
    <2>4. QED BY <1>2, <2>2, <2>3
  <1>3. \/ session'[s] = session[s]
        \/ \E l \in Loops :
             /\ StopUpdate(l) /\ s \in ActiveRows(CpOf[l], ctx[l].txn)
             /\ session'[s].meterStart = session[s].meterStart
             /\ session'[s].meterStop = ctx[l].reg /\ session'[s].energy = ctx[l].energy
    <2>1. session'[s].status # "active" OBVIOUS
    <2>2. ASSUME NEW l \in Loops,
                 session'[s] = [status |-> "active", cp |-> CpOf[l], txn |-> ctx[l].txn,
                                meterStart |-> ctx[l].reg, meterStop |-> 0, energy |-> 0]
          PROVE  FALSE
      BY <2>1, <2>2
    <2>3. QED BY <2>1, <2>2, RowMoves, Zenon
  <1>4. QED BY <1>1, <1>2, <1>3

\* A bill is what the row of its completed session says.
LEMMA BillsOfRows ==
    ASSUME TypeOK, BillingInv, CompletedExact
    PROVE  BilledEnergyIsDelta
  <1> SUFFICES ASSUME NEW s \in Sessions, cdrs[s] # <<>>, session[s].meterStart > 0
               PROVE  cdrs[s][1] = session[s].meterStop - session[s].meterStart
    BY DEF BilledEnergyIsDelta
  <1>1. Len(cdrs[s]) \in Nat /\ Len(cdrs[s]) # 0
    BY DEF TypeOK
  <1>2. 1 \in 1..Len(cdrs[s]) BY <1>1
  <1>3. session[s].status = "completed" /\ cdrs[s][1] = session[s].energy
    BY <1>2 DEF BillingInv, CdrBillsFinalEnergy
  <1>4. QED BY <1>3 DEF CompletedExact

\* With one connection for each charger a session is billed the difference of its own
\* readings, although the stop computes it before the statement that closes the row.
THEOREM BilledIsMeterDelta == OneLoopPerCharger => (Spec => []BilledEnergyIsDelta)
  <1> SUFFICES ASSUME OneLoopPerCharger PROVE Spec => []BilledEnergyIsDelta
    OBVIOUS
  <1>1. Init => MeterInv
    BY DEF Init, MeterInv, RegisterAhead, StopExact, CompletedExact, Committed, AbsentRow
  <1>2. TypeOK /\ BillingInv /\ IdsInv /\ MeterInv /\ [Next]_vars => MeterInv'
    BY AheadStep, StopExactStep, CompletedExactStep DEF MeterInv
  <1>3. TypeOK /\ BillingInv /\ MeterInv => BilledEnergyIsDelta
    BY BillsOfRows DEF MeterInv
  <1>4. Spec => []IdsInv BY IdsCorrect
  <1>5. QED BY <1>1, <1>2, <1>3, <1>4, BillingCorrect, PTL DEF Spec

-----------------------------------------------------------------------------
(* One connection for each charger: the driver's receipt *)

\* No two StartTransactions have their transactions open at the same time: each then
\* computes its id from all the rows the others have committed.
StartsAlone ==
    \A k, l \in Loops : pc[k] = "start_commit" /\ pc[l] = "start_commit" => k = l

\* The ids of all chargers' rows are different.
IdsDistinct ==
    \A s, t \in Sessions :
        Committed(s) /\ Committed(t) /\ session[s].txn = session[t].txn => s = t

\* The id about to be committed is nobody's.
FreshForAll ==
    \A l \in Loops : pc[l] = "start_commit" =>
        \A s \in Sessions : Committed(s) => session[s].txn < ctx[l].txn

\* A linked row of the charge app has the id of a session of its own; one that is not
\* linked is open.
LinkedOwn ==
    \A p \in Publics :
        \/ public[p].txn = 0 /\ ~public[p].stopped
        \/ /\ public[p].txn > 0 /\ public[p].own \in Sessions
           /\ Committed(public[p].own) /\ session[public[p].own].txn = public[p].txn

\* What StopTransaction puts on the receipt is what it wrote to its session.
StopReads ==
    \A l \in Loops, s \in Sessions :
        Serves(l, s) /\ pc[l] = "stop_public" => ctx[l].energy = session[s].energy

ReceiptInv == IdsDistinct /\ FreshForAll /\ LinkedOwn /\ StopReads /\ ReceiptShowsOwnSession

\* The ways a row of the charge app can change: linked to a session, closed, or given
\* the energy of a sample.
LEMMA PublicMoves ==
    ASSUME TypeOK, [Next]_vars, NEW p \in Publics
    PROVE  \/ public'[p] = public[p]
           \/ \E l \in Loops :
                /\ pc[l] = "start_link" /\ session' = session /\ public[p].txn = 0
                /\ public'[p].txn = ctx[l].txn /\ public'[p].own = ctx[l].s
                /\ public'[p].stopped = public[p].stopped
           \/ \E l \in Loops :
                /\ pc[l] = "stop_public" /\ session' = session /\ public[p].txn = ctx[l].txn
                /\ public'[p].txn = public[p].txn /\ public'[p].own = public[p].own
                /\ public'[p].kwh = ctx[l].energy
           \/ \E l \in Loops :
                /\ pc[l] = "meter_public" /\ session' = session /\ public[p].txn = ctx[l].txn
                /\ public'[p].txn = public[p].txn /\ public'[p].own = public[p].own
                /\ public'[p].stopped = public[p].stopped
  <1>0. public[p] \in PublicRows BY DEF TypeOK
  <1>1. ASSUME NEW l \in Loops, StartLink(l)
        PROVE  \/ public'[p] = public[p]
               \/ /\ public[p].txn = 0
                  /\ public'[p].txn = ctx[l].txn /\ public'[p].own = ctx[l].s
                  /\ public'[p].stopped = public[p].stopped
    <2>1. CASE public' = public BY <2>1
    <2>2. CASE /\ public[ctx[l].tag].txn = 0
               /\ public' = [public EXCEPT ![ctx[l].tag].txn = ctx[l].txn,
                                           ![ctx[l].tag].own = ctx[l].s]
      <3>1. CASE ctx[l].tag # p BY <2>2, <3>1 DEF TypeOK
      <3>2. CASE ctx[l].tag = p
        <4>1. public'[p] = [public[p] EXCEPT !.txn = ctx[l].txn, !.own = ctx[l].s]
          BY <2>2, <3>2 DEF TypeOK
        <4>2. ASSUME NEW r, r = [public[p] EXCEPT !.txn = ctx[l].txn, !.own = ctx[l].s]
              PROVE  /\ r.txn = ctx[l].txn /\ r.own = ctx[l].s
                     /\ r.stopped = public[p].stopped
          BY <1>0, <4>2 DEF PublicRows
        <4>3. public[p].txn = 0 BY <2>2, <3>2
        <4>4. /\ public'[p].txn = ctx[l].txn /\ public'[p].own = ctx[l].s
              /\ public'[p].stopped = public[p].stopped
          BY <4>1, <4>2
        <4>5. QED BY <4>3, <4>4
      <3>3. QED BY <3>1, <3>2
    <2>3. QED BY <1>1, <2>1, <2>2 DEF StartLink
  <1>2. ASSUME NEW l \in Loops, StopPublic(l)
        PROVE  \/ public'[p] = public[p]
               \/ /\ public[p].txn = ctx[l].txn
                  /\ public'[p].txn = public[p].txn /\ public'[p].own = public[p].own
                  /\ public'[p].kwh = ctx[l].energy
    BY <1>0, <1>2 DEF StopPublic, PublicRows
  <1>3. ASSUME NEW l \in Loops, MeterPublic(l)
        PROVE  \/ public'[p] = public[p]
               \/ /\ public[p].txn = ctx[l].txn
                  /\ public'[p].txn = public[p].txn /\ public'[p].own = public[p].own
                  /\ public'[p].stopped = public[p].stopped
    BY <1>0, <1>3 DEF MeterPublic, PublicRows
  <1>4. ASSUME NEW l \in Loops, StartLink(l) \/ StopPublic(l) \/ MeterPublic(l)
        PROVE  /\ session' = session
               /\ StartLink(l) => pc[l] = "start_link"
               /\ StopPublic(l) => pc[l] = "stop_public"
               /\ MeterPublic(l) => pc[l] = "meter_public"
    BY <1>4 DEF StartLink, StopPublic, MeterPublic
  <1>5. ASSUME NEW l \in Loops, Receive(l) \/ Fail(l) PROVE public' = public
    BY <1>5 DEF Receive, RecvStart, RecvStop, RecvMeter, Fail, dbVars
  <1>6. ASSUME NEW l \in Loops, Continue(l), ~StartLink(l), ~StopPublic(l), ~MeterPublic(l)
        PROVE  public' = public
    BY <1>6 DEF Continue, StartCommit, StartRedis, StartEvent, StartReply, StopUpdate,
         StopRedis, CdrSelect, CdrInsert, CdrEvent, StopEvent, MeterRedis, MeterSession,
         MeterEvent, dbVars
  <1>7. CASE (\E cp \in ChargePoints : Deliver(cp)) \/ UNCHANGED vars
    BY <1>7 DEF Deliver, vars, dbVars
  <1>8. QED BY <1>1, <1>2, <1>3, <1>4, <1>5, <1>6, <1>7 DEF Next

\* A handler that has closed a session is where the UPDATE left it.
LEMMA StopPublicStep ==
    ASSUME TypeOK, [Next]_vars, NEW l \in Loops, pc'[l] = "stop_public"
    PROVE  \/ pc[l] = "stop_public" /\ ctx'[l] = ctx[l]
           \/ StopUpdate(l)
  <1>1. ASSUME NEW k \in Loops, k # l, Receive(k) \/ Continue(k) \/ Fail(k)
        PROVE  pc[l] = "stop_public" /\ ctx'[l] = ctx[l]
    BY <1>1, OthersKept
  <1>2. ~Receive(l)
    BY DEF Receive, RecvStart, RecvStop, RecvMeter, TypeOK
  <1>3. ~Fail(l)
    BY Moves DEF Fail
  <1>4. ASSUME \/ StartCommit(l) \/ StartRedis(l) \/ StartEvent(l) \/ StartLink(l)
               \/ StartReply(l) \/ StopPublic(l) \/ StopRedis(l)
        PROVE  FALSE
    <2>1. \/ Finish(l)
          \/ \E next \in Steps \ {"stop_public"} : Goto(l, next)
      BY <1>4 DEF StartCommit, StartRedis, StartEvent, StartLink, StartReply, StopPublic,
           StopRedis, Steps
    <2>2. QED BY <2>1, Moves
  <1>5. ASSUME \/ CdrInsert(l) \/ CdrEvent(l) \/ StopEvent(l)
               \/ MeterRedis(l) \/ MeterSession(l) \/ MeterPublic(l) \/ MeterEvent(l)
        PROVE  FALSE
    <2>1. \/ Finish(l)
          \/ \E next \in Steps \ {"stop_public"} : Goto(l, next)
      BY <1>5 DEF CdrInsert, CdrEvent, StopEvent, MeterRedis, MeterSession, MeterPublic,
           MeterEvent, Steps
    <2>2. QED BY <2>1, Moves
  <1>6. ~CdrSelect(l)
    BY DEF CdrSelect, TypeOK
  <1>7. CASE (\E cp \in ChargePoints : Deliver(cp)) \/ UNCHANGED vars
    BY <1>7 DEF Deliver, vars
  <1>8. QED BY <1>1, <1>2, <1>3, <1>4, <1>5, <1>6, <1>7 DEF Next, Continue

\* Every step that starts one session at a time keeps all ids apart.
LEMMA DistinctStep ==
    ASSUME TypeOK, BillingInv, StartsAlone, IdsDistinct, FreshForAll, [Next]_vars
    PROVE  IdsDistinct' /\ FreshForAll'
  <1>0. HandlersHaveSession BY DEF BillingInv
  <1>1. ASSUME NEW s \in Sessions, NEW t \in Sessions, Committed(s)', Committed(t)',
               session'[s].txn = session'[t].txn, ~Committed(s)
        PROVE  s = t
    <2>1. PICK l \in Loops : /\ ctx[l].s = s /\ pc[l] = "start_commit"
                             /\ session'[s].txn = ctx[l].txn
      BY <1>1, RowAppears
    <2>2. CASE Committed(t)
      <3>1. session[t].txn = ctx[l].txn BY <1>1, <2>1, <2>2, RowKeeps
      <3>2. session[t].txn < ctx[l].txn /\ session[t].txn \in Nat
        BY <2>1, <2>2, BoundsAssumption DEF FreshForAll, TypeOK, Rows
      <3>3. QED BY <3>1, <3>2
    <2>3. CASE ~Committed(t)
      <3>1. PICK k \in Loops : ctx[k].s = t /\ pc[k] = "start_commit"
        BY <1>1, <2>3, RowAppears
      <3>2. QED BY <2>1, <3>1 DEF StartsAlone
    <2>4. QED BY <2>2, <2>3
  <1>2. IdsDistinct'
    <2> SUFFICES ASSUME NEW s \in Sessions, NEW t \in Sessions, Committed(s)', Committed(t)',
                        session'[s].txn = session'[t].txn
                 PROVE  s = t
      BY DEF IdsDistinct
    <2>1. CASE Committed(s) /\ Committed(t)
      BY <2>1, RowKeeps DEF IdsDistinct
    <2>2. QED BY <1>1, <2>1
  <1>3. ASSUME NEW l \in Loops, pc'[l] = "start_commit", NEW s \in Sessions, Committed(s)'
        PROVE  session'[s].txn < ctx'[l].txn
    <2>1. CASE pc[l] = "start_commit" /\ ctx'[l] = ctx[l]
      <3>1. Committed(s)
        <4>1. SUFFICES ASSUME ~Committed(s) PROVE FALSE OBVIOUS
        <4>2. PICK k \in Loops : pc[k] = "start_commit" /\ pc'[k] = "start_redis"
          BY <1>3, <4>1, RowAppears
        <4>3. k = l BY <2>1, <4>2 DEF StartsAlone
        <4>4. QED BY <1>3, <4>2, <4>3
      <3>2. session'[s].txn = session[s].txn BY <3>1, RowKeeps
      <3>3. QED BY <2>1, <3>1, <3>2 DEF FreshForAll
    <2>2. ASSUME NEW tag, RecvStart(l, tag)
          PROVE  session'[s].txn < ctx'[l].txn
      <3>1. PICK t \in TxnIds : IsNextTxn(t) /\ ctx'[l].txn = t
        BY <2>2 DEF RecvStart, TypeOK
      <3>2. session' = session BY <2>2 DEF RecvStart, dbVars
      <3>3. QED BY <3>1, <3>2 DEF IsNextTxn
    <2>3. \/ pc[l] = "start_commit" /\ ctx'[l] = ctx[l]
          \/ \E tag : RecvStart(l, tag)
      BY <1>0, <1>3, HandlerMoves, StepsApart DEF GoesOn
    <2>4. QED BY <2>1, <2>2, <2>3
  <1>4. QED BY <1>2, <1>3 DEF FreshForAll

\* A handler's session is the one the row with its transaction id belongs to.
LEMMA OwnIsServed ==
    ASSUME TypeOK, BillingInv, IdsInv, ReceiptInv, NEW p \in Publics, NEW l \in Loops,
           pc[l] \in {"stop_public", "meter_public"}, public[p].txn = ctx[l].txn
    PROVE  /\ Serves(l, ctx[l].s) /\ ctx[l].s \in Sessions /\ public[p].own = ctx[l].s
           /\ session[ctx[l].s].status = IF pc[l] = "stop_public" THEN "completed" ELSE "active"
  <1>1. Serves(l, ctx[l].s) /\ ctx[l].s \in Sessions
    BY DEF BillingInv, HandlersHaveSession, Serves, StopSteps, MeterSteps
  <1>2. /\ session[ctx[l].s].txn = ctx[l].txn
        /\ session[ctx[l].s].status = IF pc[l] = "stop_public" THEN "completed" ELSE "active"
    BY <1>1 DEF IdsInv, ServesOwn, StopSteps
  <1>3. Committed(ctx[l].s) BY <1>2 DEF Committed
  <1>4. public[p].txn > 0 BY <1>1, <1>2, <1>3 DEF IdsInv, RowsOwned
  <1>5. /\ public[p].own \in Sessions /\ Committed(public[p].own)
        /\ session[public[p].own].txn = public[p].txn
    BY <1>4 DEF ReceiptInv, LinkedOwn
  <1>6. public[p].own = ctx[l].s
    BY <1>1, <1>2, <1>3, <1>5 DEF ReceiptInv, IdsDistinct
  <1>7. QED BY <1>1, <1>2, <1>6

\* Every step keeps the rows of the charge app with their own sessions.
LEMMA LinkedStep ==
    ASSUME TypeOK, BillingInv, IdsInv, ReceiptInv, [Next]_vars
    PROVE  LinkedOwn'
  <1> SUFFICES ASSUME NEW p \in Publics
               PROVE  \/ public'[p].txn = 0 /\ ~public'[p].stopped
                      \/ /\ public'[p].txn > 0 /\ public'[p].own \in Sessions
                         /\ session'[public'[p].own].status # "absent"
                         /\ session'[public'[p].own].txn = public'[p].txn
    BY DEF LinkedOwn, Committed
  <1>1. CASE public'[p].txn = public[p].txn /\ public'[p].own = public[p].own
             /\ public[p].txn > 0
    <2>1. /\ public[p].own \in Sessions /\ Committed(public[p].own)
          /\ session[public[p].own].txn = public[p].txn
      BY <1>1 DEF ReceiptInv, LinkedOwn
    <2>2. session'[public[p].own].status # "absent"
          /\ session'[public[p].own].txn = session[public[p].own].txn
      BY <2>1, RowKeeps DEF Committed
    <2>3. QED BY <1>1, <2>1, <2>2
  <1>2. CASE public'[p] = public[p] /\ public[p].txn = 0
    BY <1>2 DEF ReceiptInv, LinkedOwn
  <1>3. ASSUME NEW l \in Loops, pc[l] = "start_link",
               public'[p].txn = ctx[l].txn, public'[p].own = ctx[l].s
        PROVE  /\ public'[p].txn > 0 /\ public'[p].own \in Sessions
               /\ session'[public'[p].own].status # "absent"
               /\ session'[public'[p].own].txn = public'[p].txn
    <2>1. Serves(l, ctx[l].s) /\ ctx[l].s \in Sessions
      BY <1>3 DEF BillingInv, HandlersHaveSession, Serves, StartSteps
    <2>2. session[ctx[l].s].txn = ctx[l].txn /\ Committed(ctx[l].s)
      BY <2>1 DEF IdsInv, ServesOwn, Committed
    <2>3. ctx[l].txn > 0 BY <2>1, <2>2 DEF IdsInv, RowsOwned
    <2>4. session'[ctx[l].s].status # "absent" /\ session'[ctx[l].s].txn = session[ctx[l].s].txn
      BY <2>1, <2>2, RowKeeps DEF Committed
    <2>5. QED BY <1>3, <2>1, <2>2, <2>3, <2>4
  <1>4. ASSUME NEW l \in Loops, pc[l] \in {"stop_public", "meter_public"},
               public[p].txn = ctx[l].txn
        PROVE  public[p].txn > 0
    <2>1. ctx[l].s \in Sessions /\ session[ctx[l].s].txn = ctx[l].txn /\ Committed(ctx[l].s)
      BY <1>4 DEF BillingInv, HandlersHaveSession, IdsInv, ServesOwn, Serves, Committed,
         StopSteps, MeterSteps
    <2>2. QED BY <1>4, <2>1 DEF IdsInv, RowsOwned
  <1>5. public[p].txn > 0 \/ public[p].txn = 0
    BY DEF ReceiptInv, LinkedOwn
  <1>6. QED BY <1>1, <1>2, <1>3, <1>4, <1>5, PublicMoves

\* Every step keeps it that a stop puts its session's energy on the receipt.
LEMMA StopReadsStep ==
    ASSUME TypeOK, BillingInv, IdsInv, ReceiptInv, [Next]_vars
    PROVE  StopReads'
  <1> SUFFICES ASSUME NEW l \in Loops, NEW s \in Sessions, ctx'[l].s = s,
                      pc'[l] = "stop_public"
               PROVE  ctx'[l].energy = session'[s].energy
    BY DEF StopReads, Serves
  <1>1. CASE pc[l] = "stop_public" /\ ctx'[l] = ctx[l]
    <2>1. Serves(l, s) BY <1>1, StepsApart DEF Serves
    <2>2. session[s].status = "completed"
      BY <1>1, <2>1, StepsApart DEF IdsInv, ServesOwn
    <2>3. session'[s] = session[s] BY <2>2, RowStep
    <2>4. QED BY <1>1, <2>1, <2>3 DEF ReceiptInv, StopReads
  <1>2. CASE StopUpdate(l)
    <2>1. s \in ActiveRows(CpOf[l], ctx[l].txn) /\ ctx'[l].energy = ctx[l].energy
      <3>1. PICK r \in ActiveRows(CpOf[l], ctx[l].txn) : ctx' = [ctx EXCEPT ![l].s = r]
        BY <1>2, Moves DEF StopUpdate
      <3>2. QED BY <3>1 DEF TypeOK, Locals
    <2>2. session'[s] = [session[s] EXCEPT !.status = "completed", !.meterStop = ctx[l].reg,
                                           !.energy = ctx[l].energy]
      BY <1>2, <2>1 DEF StopUpdate
    <2>3. session[s] \in Rows BY DEF TypeOK
    <2>4. QED BY <2>1, <2>2, <2>3 DEF Rows
  <1>3. QED BY <1>1, <1>2, StopPublicStep

\* Every step keeps the receipts right.
LEMMA ReceiptStep ==
    ASSUME TypeOK, BillingInv, IdsInv, ReceiptInv, [Next]_vars
    PROVE  ReceiptShowsOwnSession'
  <1> SUFFICES ASSUME NEW p \in Publics, public'[p].stopped
               PROVE  /\ session'[public'[p].own].status = "completed"
                      /\ public'[p].kwh = session'[public'[p].own].energy
    BY DEF ReceiptShowsOwnSession
  <1>1. CASE public'[p] = public[p]
    <2>1. public[p].own \in Sessions BY <1>1 DEF ReceiptInv, LinkedOwn
    <2>2. /\ session[public[p].own].status = "completed"
          /\ public[p].kwh = session[public[p].own].energy
      BY <1>1 DEF ReceiptInv, ReceiptShowsOwnSession
    <2>3. session'[public[p].own] = session[public[p].own]
      BY <2>1, <2>2, RowStep
    <2>4. QED BY <1>1, <2>2, <2>3
  <1>2. ASSUME public[p].txn = 0, public'[p].stopped = public[p].stopped
        PROVE  FALSE
    BY <1>2 DEF ReceiptInv, LinkedOwn
  <1>3. ASSUME NEW l \in Loops, pc[l] = "stop_public", session' = session,
               public[p].txn = ctx[l].txn, public'[p].own = public[p].own,
               public'[p].kwh = ctx[l].energy
        PROVE  /\ session'[public'[p].own].status = "completed"
               /\ public'[p].kwh = session'[public'[p].own].energy
    BY <1>3, OwnIsServed DEF ReceiptInv, StopReads
  <1>4. ASSUME NEW l \in Loops, pc[l] = "meter_public", public[p].txn = ctx[l].txn,
               public'[p].stopped = public[p].stopped
        PROVE  FALSE
    <2>1. session[public[p].own].status = "active" BY <1>4, OwnIsServed
    <2>2. QED BY <1>4, <2>1 DEF ReceiptInv, ReceiptShowsOwnSession
  <1>5. QED BY <1>1, <1>2, <1>3, <1>4, PublicMoves

\* With one connection for each charger, and as long as no two StartTransactions have
\* their transactions open at once, a closed row of the charge app belongs to a
\* completed session of its own and shows the energy that session is billed for.
THEOREM ReceiptsAreOwn ==
    OneLoopPerCharger => (Spec /\ []StartsAlone => []ReceiptShowsOwnSession)
  <1> SUFFICES ASSUME OneLoopPerCharger PROVE Spec /\ []StartsAlone => []ReceiptShowsOwnSession
    OBVIOUS
  <1>1. Init => ReceiptInv
    BY DEF Init, ReceiptInv, IdsDistinct, FreshForAll, LinkedOwn, StopReads,
       ReceiptShowsOwnSession, Committed, AbsentRow
  <1>2. TypeOK /\ BillingInv /\ IdsInv /\ StartsAlone /\ ReceiptInv /\ [Next]_vars => ReceiptInv'
    BY DistinctStep, LinkedStep, StopReadsStep, ReceiptStep DEF ReceiptInv
  <1>3. ReceiptInv => ReceiptShowsOwnSession
    BY DEF ReceiptInv
  <1>4. Spec => []IdsInv BY IdsCorrect
  <1>5. QED BY <1>1, <1>2, <1>3, <1>4, BillingCorrect, PTL DEF Spec

\* In particular every receipt of a site with a single connection is right.
THEOREM SingleConnectionReceipts ==
    (\A k, l \in Loops : k = l) => (Spec => []ReceiptShowsOwnSession)
  <1> SUFFICES ASSUME \A k, l \in Loops : k = l PROVE Spec => []ReceiptShowsOwnSession
    OBVIOUS
  <1>1. OneLoopPerCharger BY DEF OneLoopPerCharger
  <1>2. StartsAlone BY DEF StartsAlone
  <1>3. Spec /\ []StartsAlone => []ReceiptShowsOwnSession
    BY <1>1, ReceiptsAreOwn
  <1>4. QED BY <1>2, <1>3, PTL
==============================================================================
