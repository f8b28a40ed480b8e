---------------------------- MODULE LinguruVoltage ----------------------------
(***************************************************************************)
(* The voltage sensor of the LIN Guru, linguru-voltage.c: IIO readers, one *)
(* at a time under a mutex, send LIN_MSG_VOLT_GET and wait for the         *)
(* completion with a timeout; the completion handler of the RX URBs stores *)
(* the voltage of an answer and signals the completion.                    *)
(*                                                                         *)
(* An answer carries a voltage and nothing that names the request.  Here   *)
(* the voltage of an answer is the number of the request it answers, so    *)
(* that the age of what a reader returns can be told.                      *)
(***************************************************************************)
EXTENDS Naturals, FiniteSets

CONSTANTS
  Readers,      \* the processes that read in_voltage0_raw
  MaxRequests   \* bound: requests sent

ASSUME VoltageAssumption ==
  /\ IsFiniteSet(Readers)
  /\ MaxRequests \in Nat

VARIABLES
  at,        \* where each reader stands
  lock,      \* priv->lock is held
  done,      \* priv->completion.done
  voltage,   \* priv->voltage
  rx,        \* linguru_volt_reply: "idle", or "stored" before complete()
  pending,   \* requests whose answer has not been handled
  nreq,      \* requests sent
  own,       \* ghost: the request of each reader
  quiet,     \* ghost: nothing was pending when the reader took the lock
  answered,  \* ghost: the last answer handled to the end
  timeouts   \* ghost: how often a reader gave up

readerVars == <<at, own, quiet>>
deviceVars == <<pending, nreq>>
vars == <<readerVars, lock, done, voltage, rx, deviceVars, answered, timeouts>>

Steps == {"idle", "asking", "locked", "waiting", "woken"}

Init ==
  /\ at = [r \in Readers |-> "idle"]
  /\ own = [r \in Readers |-> 0]
  /\ quiet = [r \in Readers |-> FALSE]
  /\ lock = FALSE /\ done = 0 /\ voltage = 0 /\ rx = "idle"
  /\ pending = {} /\ nreq = 0 /\ answered = 0 /\ timeouts = 0

Goto(r, step) == at' = [at EXCEPT ![r] = step]

-----------------------------------------------------------------------------
(* linguru_volt_read_raw.                                                  *)

linguru_volt_read_raw(r) ==
  /\ at[r] = "idle"
  /\ Goto(r, "asking")
  /\ UNCHANGED <<own, quiet, lock, done, voltage, rx, deviceVars, answered,
                 timeouts>>

(* Mutant: the mutex is not taken. *)
Lock_shared(r) ==
  /\ at[r] = "asking"
  /\ lock' = TRUE
  /\ done' = 0
  /\ quiet' = [quiet EXCEPT ![r] = pending = {} /\ rx = "idle"]
  /\ Goto(r, "locked")
  /\ UNCHANGED <<own, voltage, rx, deviceVars, answered, timeouts>>

(* Mutant: reinit_completion is left out. *)
Lock_counting(r) ==
  /\ at[r] = "asking"
  /\ ~lock
  /\ lock' = TRUE
  /\ quiet' = [quiet EXCEPT ![r] = pending = {} /\ rx = "idle"]
  /\ Goto(r, "locked")
  /\ UNCHANGED <<own, done, voltage, rx, deviceVars, answered, timeouts>>

(* mutex_lock and reinit_completion.                                       *)
Lock(r) ==
  /\ at[r] = "asking"
  /\ ~lock
  /\ lock' = TRUE
  /\ done' = 0
  /\ quiet' = [quiet EXCEPT ![r] = pending = {} /\ rx = "idle"]
  /\ Goto(r, "locked")
  /\ UNCHANGED <<own, voltage, rx, deviceVars, answered, timeouts>>

(* Mutant: the error path returns with the mutex held. *)
Send_holds(r) ==
  /\ at[r] = "locked"
  /\ \/ /\ nreq < MaxRequests
        /\ nreq' = nreq + 1
        /\ pending' = pending \cup {nreq + 1}
        /\ own' = [own EXCEPT ![r] = nreq + 1]
        /\ Goto(r, "waiting")
     \/ /\ Goto(r, "idle")
        /\ UNCHANGED <<own, deviceVars>>
  /\ UNCHANGED <<quiet, lock, done, voltage, rx, answered, timeouts>>

(* guru_send_data, or its error path.                                      *)
Send(r) ==
  /\ at[r] = "locked"
  /\ \/ /\ nreq < MaxRequests
        /\ nreq' = nreq + 1
        /\ pending' = pending \cup {nreq + 1}
        /\ own' = [own EXCEPT ![r] = nreq + 1]
        /\ Goto(r, "waiting")
        /\ UNCHANGED lock
     \/ /\ Goto(r, "idle")
        /\ lock' = FALSE
        /\ UNCHANGED <<own, deviceVars>>
  /\ UNCHANGED <<quiet, done, voltage, rx, answered, timeouts>>

(* Mutant: a completion is consumed without waiting for it. *)
Wake_unguarded(r) ==
  /\ at[r] = "waiting"
  /\ done' = done - 1
  /\ Goto(r, "woken")
  /\ UNCHANGED <<own, quiet, lock, voltage, rx, deviceVars, answered,
                 timeouts>>

(* wait_for_completion_timeout consumes one completion ...                 *)
Wake(r) ==
  /\ at[r] = "waiting"
  /\ done > 0
  /\ done' = done - 1
  /\ Goto(r, "woken")
  /\ UNCHANGED <<own, quiet, lock, voltage, rx, deviceVars, answered,
                 timeouts>>

(* ... or LINGURU_VOLT_TIMEOUT passes without one: -ETIMEDOUT.             *)
Timeout(r) ==
  /\ at[r] = "waiting"
  /\ done = 0
  /\ timeouts' = timeouts + 1
  /\ Goto(r, "idle")
  /\ lock' = FALSE
  /\ UNCHANGED <<own, quiet, done, voltage, rx, deviceVars, answered>>

(* The reader takes priv->voltage and unlocks.                             *)
Return(r) ==
  /\ at[r] = "woken"
  /\ Goto(r, "idle")
  /\ lock' = FALSE
  /\ UNCHANGED <<own, quiet, done, voltage, rx, deviceVars, answered, timeouts>>

-----------------------------------------------------------------------------
(* linguru_volt_reply, called by linguru_volt_callback: the answers come   *)
(* in the order of the requests.                                           *)

linguru_volt_reply ==
  /\ rx = "idle"
  /\ \E n \in pending :
       /\ \A m \in pending : n <= m
       /\ voltage' = n
       /\ pending' = pending \ {n}
  /\ rx' = "stored"
  /\ UNCHANGED <<readerVars, lock, done, nreq, answered, timeouts>>

complete ==
  /\ rx = "stored"
  /\ done' = done + 1
  /\ answered' = voltage
  /\ rx' = "idle"
  /\ UNCHANGED <<readerVars, lock, voltage, deviceVars, timeouts>>

(* A request or its answer is lost on the way.                             *)
LoseRequest ==
  /\ \E n \in pending : pending' = pending \ {n}
  /\ UNCHANGED <<readerVars, lock, done, voltage, rx, nreq, answered, timeouts>>

-----------------------------------------------------------------------------
ReadStep(r) == Send(r) \/ Wake(r) \/ Timeout(r) \/ Return(r)

Next ==
  \/ \E r \in Readers : linguru_volt_read_raw(r) \/ Lock(r) \/ ReadStep(r)
  \/ linguru_volt_reply
  \/ complete
  \/ LoseRequest

Spec == Init /\ [][Next]_vars

(* A reader goes on, the wait ends at the latest with its timeout, and the *)
(* mutex does not starve who waits for it.  Nothing is asked of the        *)
(* device.                                                                 *)
Fairness == \A r \in Readers : WF_vars(ReadStep(r)) /\ SF_vars(Lock(r))

FairSpec == Spec /\ Fairness

-----------------------------------------------------------------------------
TypeInv ==
  /\ at \in [Readers -> Steps]
  /\ own \in [Readers -> Nat]
  /\ quiet \in [Readers -> BOOLEAN]
  /\ lock \in BOOLEAN
  /\ done \in Nat /\ voltage \in Nat /\ nreq \in Nat
  /\ answered \in Nat /\ timeouts \in Nat
  /\ rx \in {"idle", "stored"}
  /\ pending \in SUBSET (1 .. nreq)

(* What a reader returns is at most as many requests old as there were     *)
(* timeouts so far: without a timeout it is the answer to its own request, *)
(* and each timeout can shift the pairing of requests with answers by one, *)
(* for good, since the late answer is taken for the next request's.        *)
LagBounded ==
  \A r \in Readers : at[r] = "woken" => own[r] <= voltage + timeouts

(* The shift is not for good when the driver is left alone: a reader that  *)
(* starts when no answer is outstanding returns the answer to its own      *)
(* request, whatever timed out before it.                                  *)
QuietIsFresh ==
  \A r \in Readers : at[r] = "woken" /\ quiet[r] => voltage = own[r]

(* Every read returns: with a value, with -ETIMEDOUT or with the error of  *)
(* guru_send_data.                                                         *)
ReadReturns == \A r \in Readers : at[r] = "asking" ~> at[r] = "idle"

-----------------------------------------------------------------------------
(* The inductive invariant behind LagBounded and QuietIsFresh.             *)

Holds(r) == at[r] \in {"locked", "waiting", "woken"}

(* The mutex.                                                              *)
Exclusive ==
  /\ \A r \in Readers : Holds(r) => lock
  /\ \A r, s \in Readers : Holds(r) /\ Holds(s) => r = s

(* Answers are handled in the order of the requests.                       *)
InOrder ==
  /\ answered <= voltage /\ voltage <= nreq
  /\ \A n \in pending : voltage < n
  /\ rx = "idle" => answered = voltage
  /\ rx = "stored" => answered < voltage

(* Who waits sent the latest request.                                      *)
Latest == \A r \in Readers : at[r] \in {"waiting", "woken"} => own[r] = nreq

(* How far the answers handled are behind the requests: one completion     *)
(* that is not consumed yet is one answer less to come.                    *)
Lag ==
  LET unread == IF done > 0 THEN 1 ELSE 0
  IN  /\ ~lock => nreq <= answered + timeouts
      /\ \A r \in Readers :
           /\ at[r] = "locked" => nreq + unread <= answered + timeouts
           /\ at[r] = "waiting" => nreq + unread <= answered + timeouts + 1
           /\ at[r] = "woken" => nreq <= answered + timeouts

(* A reader that found nothing outstanding is woken by its own answer.     *)
Fresh ==
  \A r \in Readers : quiet[r] =>
    /\ at[r] = "locked" => pending = {} /\ rx = "idle" /\ done = 0
    /\ at[r] = "waiting" => /\ pending \subseteq {nreq}
                            /\ rx = "stored" => voltage = nreq
                            /\ done > 0 => voltage = nreq
    /\ at[r] = "woken" => voltage = nreq

IInv == TypeInv /\ Exclusive /\ InOrder /\ Latest /\ Lag /\ Fresh
=============================================================================
