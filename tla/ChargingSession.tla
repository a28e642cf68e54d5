--------------------------- MODULE ChargingSession ---------------------------
(***************************************************************************)
(* The life of a charging session in the OCPP 1.6 server: the handlers of  *)
(* StartTransaction, MeterValues and StopTransaction (ocpp16/session.py,   *)
(* ocpp16/meter.py), run by the message loops of main.py.                  *)
(*                                                                         *)
(* A message loop reads one connection and handles its messages one after  *)
(* the other (main.py, on_connect_16).  Loops of different chargers, and   *)
(* the old and the new loop of a charger that reconnected while its old    *)
(* socket was still being served, interleave at every await.  Each action  *)
(* below is the code between two awaits that touch shared state: one SQL   *)
(* statement in autocommit, one transaction's reads or its commit, one     *)
(* Redis command, one published event.                                     *)
(***************************************************************************)
EXTENDS Naturals, Sequences, FiniteSets

CONSTANTS
    ChargePoints,   \* charge point ids
    Loops,          \* message loops (connections being served)
    CpOf,           \* CpOf[l] : the charge point whose messages l reads
    Sessions,       \* session UUIDs the database may hand out
    Publics,        \* charge-app sessions, each with the tag APP_<id prefix>
    NoCp,           \* no charge point: the row does not exist
    NoSession,      \* None in session_id
    Rfid,           \* an idTag that is not an APP_ tag
    InitialReadings,\* what a charger's register may show at first
    MaxTxn,         \* bound on transaction ids
    MaxRegister,    \* bound on a charger's lifetime energy register (Wh)
    MaxFails        \* bound on failed handlers

ASSUME LoopsAssumption == CpOf \in [Loops -> ChargePoints]
ASSUME NullsAssumption ==
    /\ NoCp \notin ChargePoints
    /\ NoSession \notin Sessions
    /\ Rfid \notin Publics
ASSUME BoundsAssumption ==
    /\ MaxTxn \in Nat /\ MaxRegister \in Nat /\ MaxFails \in Nat
    /\ InitialReadings \subseteq 0..MaxRegister

VARIABLES
    session,    \* ocpp.sessions, committed rows
    cdrs,       \* ocpp.cdrs: the energy of each row of a session, in order
    public,     \* ocpp.public_sessions
    live,       \* Redis hash session:<id>: "none", "full", or "partial" when
                \* only the meter fields are there
    emitted,    \* event types published for a session on the event bus
    pc,         \* the next step of a loop's handler, "idle" between messages
    ctx,        \* the local variables of a loop's handler
    register,   \* the charger's own lifetime energy counter
    told,       \* transaction ids a charger received in a StartTransaction.conf
    fails       \* handlers that failed so far

dbVars == <<session, cdrs, public>>
chargerVars == <<register, told>>
vars == <<session, cdrs, public, live, emitted, pc, ctx, register, told, fails>>

-----------------------------------------------------------------------------
(* Values *)

TxnIds == 1..MaxTxn         \* transaction_id; 0 stands for NULL
Energies == 0..MaxRegister

Rows ==
    [status : {"absent", "active", "completed"}, cp : ChargePoints \cup {NoCp},
     txn : 0..MaxTxn, meterStart : Energies, meterStop : Energies, energy : Energies]

AbsentRow ==
    [status |-> "absent", cp |-> NoCp, txn |-> 0,
     meterStart |-> 0, meterStop |-> 0, energy |-> 0]

\* own is not a column: it remembers which session's StartTransaction linked
\* the row, so that a property can say whose energy the driver should see.
PublicRows ==
    [txn : 0..MaxTxn, stopped : BOOLEAN, kwh : Energies, own : Sessions \cup {NoSession}]

Steps ==
    {"idle", "start_commit", "start_redis", "start_event", "start_link", "start_reply",
     "stop_update", "stop_public", "stop_redis", "cdr_select", "cdr_insert",
     "cdr_event", "stop_event",
     "meter_redis", "meter_session", "meter_public", "meter_event"}

Locals ==
    [s : Sessions \cup {NoSession}, txn : 0..MaxTxn, reg : Energies,
     energy : Energies, tag : Publics \cup {Rfid}]

NoLocals == [s |-> NoSession, txn |-> 0, reg |-> 0, energy |-> 0, tag |-> Rfid]

TypeOK ==
    /\ session \in [Sessions -> Rows]
    /\ cdrs \in [Sessions -> Seq(Energies)]
    /\ public \in [Publics -> PublicRows]
    /\ live \in [Sessions -> {"none", "full", "partial"}]
    /\ emitted \in [Sessions -> SUBSET {"start", "meter", "cdr", "stop"}]
    /\ pc \in [Loops -> Steps]
    /\ ctx \in [Loops -> Locals]
    /\ register \in [ChargePoints -> Energies]
    /\ told \in [ChargePoints -> SUBSET (0..MaxTxn)]
    /\ fails \in Nat

Init ==
    /\ session = [s \in Sessions |-> AbsentRow]
    /\ cdrs = [s \in Sessions |-> <<>>]
    /\ public = [p \in Publics |->
                    [txn |-> 0, stopped |-> FALSE, kwh |-> 0, own |-> NoSession]]
    /\ live = [s \in Sessions |-> "none"]
    /\ emitted = [s \in Sessions |-> {}]
    /\ pc = [l \in Loops |-> "idle"]
    /\ ctx = [l \in Loops |-> NoLocals]
    /\ register \in [ChargePoints -> InitialReadings]
    /\ told = [cp \in ChargePoints |-> {}]
    /\ fails = 0

-----------------------------------------------------------------------------
(* Helpers *)

\* The operators named Wrong... are what a slip in the definition that follows
\* would make of it; the specification does not use them.

\* The raw register, as if meterStart were not subtracted.
WrongSessionEnergy(reg, meterStart) == reg

\* The session's share of a cumulative register: nothing when either reading
\* is not positive, never negative.
SessionEnergy(reg, meterStart) ==
    IF reg = 0 \/ meterStart = 0 \/ reg < meterStart THEN 0 ELSE reg - meterStart

WrongLargerLatest(a, b) == b    \* no GREATEST
WrongLargerSum(a, b) == a + b   \* samples taken for increments

Larger(a, b) == IF a >= b THEN a ELSE b

\* Without status = 'active'.
WrongActiveRows(cp, txn) ==
    {s \in Sessions : session[s].cp = cp /\ session[s].txn = txn}

\* WHERE charge_point = cp AND transaction_id = txn AND status = 'active'
ActiveRows(cp, txn) ==
    {s \in Sessions : session[s].status = "active" /\ session[s].cp = cp /\ session[s].txn = txn}

\* COALESCE(MAX(transaction_id), 0) + 1 over the rows the statement sees.
IsNextTxn(t) ==
    /\ \A s \in Sessions : session[s].txn < t
    /\ t = 1 \/ \E s \in Sessions : session[s].txn = t - 1

\* Handler l goes to step next and keeps its locals.
Goto(l, next) == pc' = [pc EXCEPT ![l] = next] /\ UNCHANGED ctx

\* Handler l is done with its message.
Finish(l) == pc' = [pc EXCEPT ![l] = "idle"] /\ ctx' = [ctx EXCEPT ![l] = NoLocals]

Publish(s, type) == emitted' = [emitted EXCEPT ![s] = @ \cup {type}]

-----------------------------------------------------------------------------
(* StartTransaction *)

\* The open transaction has inserted its row, invisible to all others, and
\* computed the transaction id from the rows committed so far.
RecvStart(l, tag) ==
    /\ pc[l] = "idle"
    /\ \E s \in Sessions, t \in TxnIds :
        /\ session[s].status = "absent"
        /\ \A k \in Loops : ~(pc[k] = "start_commit" /\ ctx[k].s = s)
        /\ IsNextTxn(t)
        /\ ctx' = [ctx EXCEPT ![l] = [s |-> s, txn |-> t, reg |-> register[CpOf[l]],
                                      energy |-> 0, tag |-> tag]]
    /\ pc' = [pc EXCEPT ![l] = "start_commit"]
    /\ UNCHANGED <<dbVars, live, emitted, chargerVars, fails>>

StartCommit(l) ==
    /\ pc[l] = "start_commit"
    /\ session' = [session EXCEPT ![ctx[l].s] =
                    [status |-> "active", cp |-> CpOf[l], txn |-> ctx[l].txn,
                     meterStart |-> ctx[l].reg, meterStop |-> 0, energy |-> 0]]
    /\ Goto(l, "start_redis")
    /\ UNCHANGED <<cdrs, public, live, emitted, chargerVars, fails>>

\* The charger has its answer before session.start is published.
WrongStartRedis(l) ==
    /\ pc[l] = "start_redis"
    /\ live' = [live EXCEPT ![ctx[l].s] = "full"]
    /\ told' = [told EXCEPT ![CpOf[l]] = @ \cup {ctx[l].txn}]
    /\ Goto(l, "start_event")
    /\ UNCHANGED <<dbVars, emitted, register, fails>>

StartRedis(l) ==
    /\ pc[l] = "start_redis"
    /\ live' = [live EXCEPT ![ctx[l].s] = "full"]
    /\ Goto(l, "start_event")
    /\ UNCHANGED <<dbVars, emitted, chargerVars, fails>>

StartEvent(l) ==
    /\ pc[l] = "start_event"
    /\ Publish(ctx[l].s, "start")
    /\ Goto(l, IF ctx[l].tag \in Publics THEN "start_link" ELSE "start_reply")
    /\ UNCHANGED <<dbVars, live, chargerVars, fails>>

\* The UPDATE matches the row of the tag only while it has no transaction id.
StartLink(l) ==
    LET p == ctx[l].tag IN
    /\ pc[l] = "start_link"
    /\ public' = IF public[p].txn = 0
                 THEN [public EXCEPT ![p].txn = ctx[l].txn, ![p].own = ctx[l].s]
                 ELSE public
    /\ Goto(l, "start_reply")
    /\ UNCHANGED <<session, cdrs, live, emitted, chargerVars, fails>>

\* The response carries the transaction id, or is lost with the connection.
StartReply(l) ==
    /\ pc[l] = "start_reply"
    /\ \/ told' = [told EXCEPT ![CpOf[l]] = @ \cup {ctx[l].txn}]
       \/ UNCHANGED told
    /\ Finish(l)
    /\ UNCHANGED <<dbVars, live, emitted, register, fails>>

-----------------------------------------------------------------------------
(* StopTransaction *)

\* SELECT inside the transaction: one of the active rows of this id, or none,
\* in which case the handler only logs a warning and replies.
RecvStop(l, txn) ==
    LET reg == register[CpOf[l]] IN
    /\ pc[l] = "idle"
    /\ \E s \in ActiveRows(CpOf[l], txn) :
        ctx' = [ctx EXCEPT ![l] =
                    [s |-> NoSession, txn |-> txn, reg |-> reg,
                     energy |-> SessionEnergy(reg, session[s].meterStart), tag |-> Rfid]]
    /\ pc' = [pc EXCEPT ![l] = "stop_update"]
    /\ UNCHANGED <<dbVars, live, emitted, chargerVars, fails>>

\* The UPDATE without status = 'active': whoever computed last writes.
WrongStopUpdate(l) ==
    \E s \in Sessions :
        /\ pc[l] = "stop_update"
        /\ session[s].cp = CpOf[l] /\ session[s].txn = ctx[l].txn
        /\ session' = [session EXCEPT ![s].status = "completed",
                                      ![s].meterStop = ctx[l].reg,
                                      ![s].energy = ctx[l].energy]
        /\ ctx' = [ctx EXCEPT ![l].s = s]
        /\ pc' = [pc EXCEPT ![l] = "stop_public"]
        /\ UNCHANGED <<cdrs, public, live, emitted, chargerVars, fails>>

\* The UPDATE closes every row that is still active with this id, with the one
\* energy computed before; the code goes on with the first row returned, and
\* replies at once when there is none.
StopUpdate(l) ==
    LET rows == ActiveRows(CpOf[l], ctx[l].txn) IN
    /\ pc[l] = "stop_update"
    /\ session' = [s \in Sessions |->
                    IF s \in rows
                    THEN [session[s] EXCEPT !.status = "completed",
                                            !.meterStop = ctx[l].reg,
                                            !.energy = ctx[l].energy]
                    ELSE session[s]]
    /\ \/ rows = {} /\ Finish(l)
       \/ \E s \in rows :
            /\ ctx' = [ctx EXCEPT ![l].s = s]
            /\ pc' = [pc EXCEPT ![l] = "stop_public"]
    /\ UNCHANGED <<cdrs, public, live, emitted, chargerVars, fails>>

\* Closes the driver's row and leaves the last sample on his receipt.
WrongStopPublic(l) ==
    /\ pc[l] = "stop_public"
    /\ public' = [p \in Publics |->
                    [public[p] EXCEPT !.stopped = @ \/ public[p].txn = ctx[l].txn]]
    /\ Goto(l, "stop_redis")
    /\ UNCHANGED <<session, cdrs, live, emitted, chargerVars, fails>>

\* No charge point in this WHERE: every open row with this transaction id.
StopPublic(l) ==
    /\ pc[l] = "stop_public"
    /\ public' = [p \in Publics |->
                    IF public[p].txn = ctx[l].txn /\ ~public[p].stopped
                    THEN [public[p] EXCEPT !.stopped = TRUE, !.kwh = ctx[l].energy]
                    ELSE public[p]]
    /\ Goto(l, "stop_redis")
    /\ UNCHANGED <<session, cdrs, live, emitted, chargerVars, fails>>

\* Forgets del_session.
WrongStopRedisKeeps(l) ==
    /\ pc[l] = "stop_redis"
    /\ Goto(l, "cdr_select")
    /\ UNCHANGED <<dbVars, live, emitted, chargerVars, fails>>

StopRedis(l) ==
    /\ pc[l] = "stop_redis"
    /\ live' = [live EXCEPT ![ctx[l].s] = "none"]
    /\ Goto(l, "cdr_select")
    /\ UNCHANGED <<dbVars, emitted, chargerVars, fails>>

\* Returns early when the session drew nothing.
WrongCdrSelect(l) ==
    LET energy == session[ctx[l].s].energy IN
    /\ pc[l] = "cdr_select"
    /\ IF energy = 0
       THEN Finish(l)
       ELSE ctx' = [ctx EXCEPT ![l].energy = energy] /\ pc' = [pc EXCEPT ![l] = "cdr_insert"]
    /\ UNCHANGED <<dbVars, live, emitted, chargerVars, fails>>

\* generate_cdr: the SELECT, the INSERT and the event are three awaits.
CdrSelect(l) ==
    /\ pc[l] = "cdr_select"
    /\ ctx' = [ctx EXCEPT ![l].energy = session[ctx[l].s].energy]
    /\ pc' = [pc EXCEPT ![l] = "cdr_insert"]
    /\ UNCHANGED <<dbVars, live, emitted, chargerVars, fails>>

\* Bills the register instead of the session's share of it.
WrongCdrInsert(l) ==
    /\ pc[l] = "cdr_insert"
    /\ cdrs' = [cdrs EXCEPT ![ctx[l].s] = Append(@, ctx[l].reg)]
    /\ Goto(l, "cdr_event")
    /\ UNCHANGED <<session, public, live, emitted, chargerVars, fails>>

CdrInsert(l) ==
    /\ pc[l] = "cdr_insert"
    /\ cdrs' = [cdrs EXCEPT ![ctx[l].s] = Append(@, ctx[l].energy)]
    /\ Goto(l, "cdr_event")
    /\ UNCHANGED <<session, public, live, emitted, chargerVars, fails>>

CdrEvent(l) ==
    /\ pc[l] = "cdr_event"
    /\ Publish(ctx[l].s, "cdr")
    /\ Goto(l, "stop_event")
    /\ UNCHANGED <<dbVars, live, chargerVars, fails>>

\* The driver notification that follows only reads, and never fails.
StopEvent(l) ==
    /\ pc[l] = "stop_event"
    /\ Publish(ctx[l].s, "stop")
    /\ Finish(l)
    /\ UNCHANGED <<dbVars, live, chargerVars, fails>>

-----------------------------------------------------------------------------
(* MeterValues, one sample *)

\* The session is looked up once; everything after uses this answer.  The raw
\* sample also goes to ocpp.meter_values, an audit table nothing here reads.
RecvMeter(l, txn) ==
    LET rows == ActiveRows(CpOf[l], txn)
        reg == register[CpOf[l]] IN
    /\ pc[l] = "idle"
    /\ \/ /\ rows = {}
          /\ ctx' = [ctx EXCEPT ![l].txn = txn]
          /\ pc' = [pc EXCEPT ![l] = "meter_event"]
       \/ \E s \in rows :
          /\ ctx' = [ctx EXCEPT ![l] =
                        [s |-> s, txn |-> txn, reg |-> reg,
                         energy |-> SessionEnergy(reg, session[s].meterStart), tag |-> Rfid]]
          /\ pc' = [pc EXCEPT ![l] = "meter_redis"]
    /\ UNCHANGED <<dbVars, live, emitted, chargerVars, fails>>

\* HSET creates the hash when StopTransaction deleted it in the meantime.
MeterRedis(l) ==
    LET s == ctx[l].s IN
    /\ pc[l] = "meter_redis"
    /\ live' = [live EXCEPT ![s] = IF @ = "none" THEN "partial" ELSE @]
    /\ Goto(l, IF ctx[l].energy > 0 THEN "meter_session" ELSE "meter_event")
    /\ UNCHANGED <<dbVars, emitted, chargerVars, fails>>

\* The UPDATE without status = 'active'.
WrongMeterSession(l) ==
    /\ pc[l] = "meter_session"
    /\ session' = [session EXCEPT ![ctx[l].s].energy = Larger(@, ctx[l].energy)]
    /\ Goto(l, "meter_public")
    /\ UNCHANGED <<cdrs, public, live, emitted, chargerVars, fails>>

\* GREATEST(energy_kwh, sample) while the row is active.
MeterSession(l) ==
    LET s == ctx[l].s IN
    /\ pc[l] = "meter_session"
    /\ session' = IF session[s].status = "active"
                  THEN [session EXCEPT ![s].energy = Larger(@, ctx[l].energy)]
                  ELSE session
    /\ Goto(l, "meter_public")
    /\ UNCHANGED <<cdrs, public, live, emitted, chargerVars, fails>>

\* Neither GREATEST nor a guard on stopped_at or on the charge point.
MeterPublic(l) ==
    /\ pc[l] = "meter_public"
    /\ public' = [p \in Publics |->
                    IF public[p].txn = ctx[l].txn
                    THEN [public[p] EXCEPT !.kwh = ctx[l].energy] ELSE public[p]]
    /\ Goto(l, "meter_event")
    /\ UNCHANGED <<session, cdrs, live, emitted, chargerVars, fails>>

MeterEvent(l) ==
    /\ pc[l] = "meter_event"
    /\ IF ctx[l].s = NoSession THEN UNCHANGED emitted ELSE Publish(ctx[l].s, "meter")
    /\ Finish(l)
    /\ UNCHANGED <<dbVars, live, chargerVars, fails>>

-----------------------------------------------------------------------------
(* Failures and the chargers *)

\* A statement, a Redis command or a publication raises, and the handler is
\* abandoned with a CALL_ERROR; or the process dies.  What was committed stays,
\* an open transaction is rolled back.
Fail(l) ==
    /\ pc[l] # "idle"
    /\ fails < MaxFails
    /\ fails' = fails + 1
    /\ Finish(l)
    /\ UNCHANGED <<dbVars, live, emitted, chargerVars>>

\* Energy flows, and the charger's lifetime register with it.
Deliver(cp) ==
    /\ register[cp] < MaxRegister
    /\ register' = [register EXCEPT ![cp] = @ + 1]
    /\ UNCHANGED <<dbVars, live, emitted, pc, ctx, told, fails>>

\* A charger starts a transaction at any time (a lost response makes it start
\* again), and sends samples and stops for the ids it was told, also repeatedly.
Receive(l) ==
    \/ \E tag \in Publics \cup {Rfid} : RecvStart(l, tag)
    \/ \E txn \in told[CpOf[l]] : RecvStop(l, txn) \/ RecvMeter(l, txn)

Continue(l) ==
    \/ StartCommit(l) \/ StartRedis(l) \/ StartEvent(l) \/ StartLink(l) \/ StartReply(l)
    \/ StopUpdate(l) \/ StopPublic(l) \/ StopRedis(l)
    \/ CdrSelect(l) \/ CdrInsert(l) \/ CdrEvent(l) \/ StopEvent(l)
    \/ MeterRedis(l) \/ MeterSession(l) \/ MeterPublic(l) \/ MeterEvent(l)

Next ==
    \/ \E l \in Loops : Receive(l) \/ Continue(l) \/ Fail(l)
    \/ \E cp \in ChargePoints : Deliver(cp)

Spec == Init /\ [][Next]_vars

\* The event loop runs every handler whose awaited call has returned; nothing
\* obliges a charger to send anything.
FairSpec == Spec /\ \A l \in Loops : WF_vars(Continue(l))

-----------------------------------------------------------------------------
(* Properties *)

\* db/schema.sql promises one CDR per completed session.  Two StopTransactions
\* for the same id, retried over a second connection, must not bill twice.
AtMostOneCdr == \A s \in Sessions : Len(cdrs[s]) <= 1

\* Whatever samples were still in flight when the session stopped, a CDR exists
\* only for a completed session and bills exactly the energy that session row
\* shows, for ever: generate_cdr reads the row in a statement of its own, long
\* after the transaction that closed it.
CdrBillsFinalEnergy ==
    \A s \in Sessions : \A i \in 1..Len(cdrs[s]) :
        session[s].status = "completed" /\ cdrs[s][i] = session[s].energy

\* No step reopens or rewrites a completed session: neither a late sample nor a
\* second StopTransaction, whose handlers read the row while it was active.
CompletedIsFinal ==
    [][\A s \in Sessions :
            session[s].status = "completed" => session'[s] = session[s]]_session

\* While a session is active its energy never falls, even when the old loop of a
\* reconnected charger writes an older sample last (GREATEST in the UPDATE).
ActiveEnergyGrows ==
    [][\A s \in Sessions :
            session'[s].status = "active" => session'[s].energy >= session[s].energy]_session

\* No event of a session precedes its session.start, as long as no charger has
\* two loops: the id that samples and stops need is returned after the event.
StartAnnouncedFirst ==
    \A s \in Sessions : emitted[s] # {} => "start" \in emitted[s]

\* A CDR bills meterStop - meterStart of its own session, as ocpp16/handler.py
\* defines session energy, when the register had left zero before it started.
BilledEnergyIsDelta ==
    \A s \in Sessions :
        cdrs[s] # <<>> /\ session[s].meterStart > 0
            => cdrs[s][1] = session[s].meterStop - session[s].meterStart

\* The driver's closed charge-app session belongs to a completed session of his
\* own, and its receipt shows the energy that session is billed for.
ReceiptShowsOwnSession ==
    \A p \in Publics :
        public[p].stopped =>
            /\ session[public[p].own].status = "completed"
            /\ public[p].kwh = session[public[p].own].energy

\* Once session.stop is out, the live state no longer lists the session as active
\* (redis_state.del_session, "Remove session from live state").
LiveStateForgets ==
    \A s \in Sessions : "stop" \in emitted[s] => live[s] = "none"

\* What the event bus, the live state and the charger are told of a session fits
\* together: its start is announced before the charger can use its id, its stop after
\* the live state has dropped it (emit_session_start, redis_state.del_session).
AnnouncementsFit == StartAnnouncedFirst /\ LiveStateForgets

\* A completed session is eventually billed, unless some handler failed: no
\* handler waits for another, whatever the chargers send or stop sending.
CompletedBilledUnlessFailed ==
    \A s \in Sessions : session[s].status = "completed" ~> cdrs[s] # <<>> \/ fails > 0

\* The same whether or not a handler fails between the commit that completes the
\* session and generate_cdr.  db/schema.sql: "one per completed session".
CompletedGetsCdr ==
    \A s \in Sessions : session[s].status = "completed" ~> cdrs[s] # <<>>

\* The handlers implement the billing ledger: a row's status is the phase, its
\* energy the amount, its CDR rows the bills.
PhaseOf == [absent |-> "none", active |-> "open", completed |-> "closed"]
Phases == [s \in Sessions |-> PhaseOf[session[s].status]]
Amounts == [s \in Sessions |-> session[s].energy]

Ledger == INSTANCE BillingLedger WITH phase <- Phases, amount <- Amounts, bills <- cdrs

LedgerSpec == Ledger!Spec

-----------------------------------------------------------------------------
(* The inductive invariant behind the properties above *)

\* Handler l has closed session s and has not inserted its CDR yet.
Settles(l, s) ==
    pc[l] \in {"stop_public", "stop_redis", "cdr_select", "cdr_insert"} /\ ctx[l].s = s

\* A row some handler is about to commit is not there yet, and is nobody else's.
ReservedRowsAbsent ==
    \A l \in Loops : pc[l] = "start_commit" =>
        /\ ctx[l].s \in Sessions
        /\ session[ctx[l].s].status = "absent"
        /\ \A k \in Loops : pc[k] = "start_commit" /\ ctx[k].s = ctx[l].s => k = l

\* The conditional UPDATE elects one handler to bill a session.
OneSettler ==
    \A l \in Loops, s \in Sessions : Settles(l, s) =>
        /\ session[s].status = "completed"
        /\ cdrs[s] = <<>>
        /\ \A k \in Loops : Settles(k, s) => k = l

\* What generate_cdr read is still what the row says when it inserts.
CdrReadIsCurrent ==
    \A l \in Loops : pc[l] = "cdr_insert" => ctx[l].energy = session[ctx[l].s].energy

\* Handlers past the lookup work on a session.
HandlersHaveSession ==
    \A l \in Loops :
        pc[l] \notin {"idle", "stop_update", "meter_event"} => ctx[l].s \in Sessions

BillingInv ==
    /\ ReservedRowsAbsent
    /\ OneSettler
    /\ CdrReadIsCurrent
    /\ HandlersHaveSession
    /\ AtMostOneCdr
    /\ CdrBillsFinalEnergy
==============================================================================
