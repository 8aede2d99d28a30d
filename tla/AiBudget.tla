------------------------------ MODULE AiBudget ------------------------------
(***************************************************************************)
(* The shared monthly allowance of the AI provider (p0_05_ai_budget): one  *)
(* row per month, one ai_usage row per attempt key, the holds that carry   *)
(* uncertain amounts into later months, and the owner's thresholds.        *)
(*                                                                         *)
(* An action is one call of a database function.  Each locks the periods   *)
(* of its attempt and then the attempt, so it is one atomic step; nothing  *)
(* is assumed about who calls what, in which order or how often.  AiGateway*)
(* is the one caller there is.                                             *)
(*                                                                         *)
(* The clock is the current month and whether its end is nearer than the   *)
(* dispatch window (DISPATCH_WINDOW_SECONDS).  Amounts are micro-dollars.  *)
(***************************************************************************)
EXTENDS Integers, FiniteSets

CONSTANTS
  Keys,         \* ai_usage.attempt_key
  LastMonth,    \* bound of the model: months 1..LastMonth
  Prices,       \* effective price versions of the catalogue
  Normal,       \* price -> reservation with the normal output bound
  Lighter,      \* price -> reservation with the lighter output bound
  Ceiling,      \* the $10 that no threshold may exceed
  Thresholds,   \* the pairs of thresholds the owner may choose from
  Bills         \* what a provider call may be billed

ASSUME AttemptsAssumption ==
  /\ IsFiniteSet(Keys)
  /\ LastMonth \in Nat \ {0}

ASSUME AmountsAssumption ==
  /\ Prices # {}
  /\ Normal \in [Prices -> Nat \ {0}]
  /\ Lighter \in [Prices -> Nat \ {0}]
  /\ \A p \in Prices : Lighter[p] <= Normal[p]
  /\ Bills \subseteq Nat

ASSUME ThresholdsAssumption ==
  /\ Ceiling \in Nat
  /\ Thresholds # {}
  /\ Thresholds \subseteq {t \in [lighter : Nat, stop : Nat] :
                             t.lighter <= t.stop /\ t.stop <= Ceiling}

VARIABLES
  clock,     \* the current month, and whether it is closing
  settled,   \* budget_periods.settled_micros
  reserved,  \* budget_periods.reserved_micros
  limits,    \* budget_settings: the thresholds in force
  paused,    \* budget_settings.paused_reason
  usage,     \* the ai_usage row of an attempt key
  hold       \* budget_holds: attempt -> month -> absent, held or released

vars == <<clock, settled, reserved, limits, paused, usage, hold>>

Months == 1..LastMonth
UsageStates == {"none", "refused", "reserved", "dispatching",
                "settled", "released", "unknown"}
Uncertain == {"dispatching", "unknown"}     \* may have been billed
Open == {"reserved"} \cup Uncertain         \* ai_usage_open
Pauses == {"no", "over_reservation", "restore"}

NoUsage == [state |-> "none", month |-> 1, amount |-> 0, billed |-> 0,
            price |-> CHOOSE p \in Prices : TRUE]

Usages == [state : UsageStates, month : Months, amount : Nat, billed : Nat,
           price : Prices]

TypeOK ==
  /\ clock \in [month : Months, closing : BOOLEAN]
  /\ settled \in [Months -> Nat]
  /\ reserved \in [Months -> Nat]
  /\ limits \in Thresholds
  /\ paused \in Pauses
  /\ usage \in [Keys -> Usages]
  /\ hold \in [Keys -> [Months -> {"absent", "held", "released"}]]

Init ==
  /\ clock = [month |-> 1, closing |-> FALSE]
  /\ settled = [m \in Months |-> 0]
  /\ reserved = [m \in Months |-> 0]
  /\ limits \in Thresholds
  /\ paused = "no"
  /\ usage = [k \in Keys |-> NoUsage]
  /\ hold = [k \in Keys |-> [m \in Months |-> "absent"]]

-----------------------------------------------------------------------------
(* A sum over attempts, counted unit by unit: owed[k] units labelled k.      *)
(* Counting a set is what lets the sum be reasoned about for any set of keys.*)
Units(owed) == UNION {{k} \X (1..owed[k]) : k \in Keys}
Sum(owed) == Cardinality(Units(owed))

HeldIn(m) == [k \in Keys |-> IF hold[k][m] = "held" THEN usage[k].amount ELSE 0]

Committed(m) == settled[m] + reserved[m] + Sum(HeldIn(m))

(* now() + window > period_end, for the period of month m                    *)
TooLateFor(m) == m < clock.month \/ clock.closing

AdmittedAmountsOfSettled(p) ==
  LET spent == settled[clock.month] + Sum(HeldIn(clock.month))
  IN  IF TooLateFor(clock.month) \/ paused # "no" THEN {}
      ELSE IF spent + Normal[p] <= limits.lighter THEN {Normal[p]}
      ELSE IF spent + Lighter[p] <= limits.stop THEN {Lighter[p]}
      ELSE {}

(* The mode svc_ai_reserve chooses, if it admits the attempt at all.         *)
AdmittedAmounts(p) ==
  LET spent == Committed(clock.month)
  IN  IF TooLateFor(clock.month) \/ paused # "no" THEN {}
      ELSE IF spent + Normal[p] <= limits.lighter THEN {Normal[p]}
      ELSE IF spent + Lighter[p] <= limits.stop THEN {Lighter[p]}
      ELSE {}

NewUsage(k, p, state, amount) ==
  usage' = [usage EXCEPT ![k] = [state |-> state, month |-> clock.month,
                                 amount |-> amount, billed |-> 0, price |-> p]]

(* svc_ai_reserve for a key it does not know; a known key is returned as it  *)
(* is, which changes nothing.                                                *)
AdmitReservation(k, p) ==
  /\ usage[k].state = "none"
  /\ \E amount \in AdmittedAmounts(p) :
       /\ NewUsage(k, p, "reserved", amount)
       /\ reserved' = [reserved EXCEPT ![clock.month] = @ + amount]
  /\ UNCHANGED <<clock, settled, limits, paused, hold>>

RefuseReservation(k, p) ==
  /\ usage[k].state = "none"
  /\ AdmittedAmounts(p) = {}
  /\ NewUsage(k, p, "refused", 0)
  /\ UNCHANGED <<clock, settled, reserved, limits, paused, hold>>

EndUsageInThisMonth(k, state, billed) ==
  LET m == clock.month IN
  /\ reserved' = [reserved EXCEPT ![m] = @ - usage[k].amount]
  /\ settled' = [settled EXCEPT ![m] = @ + billed]
  /\ usage' = [usage EXCEPT ![k] =
                 [usage[k] EXCEPT !.state = state, !.billed = billed]]
  /\ hold' = [hold EXCEPT ![k] = [n \in Months |->
                IF hold[k][n] = "held" THEN "released" ELSE hold[k][n]]]
  /\ UNCHANGED <<clock, limits>>

EndUsageKeepingHolds(k, state, billed) ==
  LET m == usage[k].month IN
  /\ reserved' = [reserved EXCEPT ![m] = @ - usage[k].amount]
  /\ settled' = [settled EXCEPT ![m] = @ + billed]
  /\ usage' = [usage EXCEPT ![k] =
                 [usage[k] EXCEPT !.state = state, !.billed = billed]]
  /\ UNCHANGED <<clock, limits, hold>>

(* release_usage, and the state its callers then give the attempt            *)
EndUsage(k, state, billed) ==
  LET m == usage[k].month IN
  /\ reserved' = [reserved EXCEPT ![m] = @ - usage[k].amount]
  /\ settled' = [settled EXCEPT ![m] = @ + billed]
  /\ usage' = [usage EXCEPT ![k] =
                 [usage[k] EXCEPT !.state = state, !.billed = billed]]
  /\ hold' = [hold EXCEPT ![k] = [n \in Months |->
                IF hold[k][n] = "held" THEN "released" ELSE hold[k][n]]]
  /\ UNCHANGED <<clock, limits>>

(* svc_ai_mark_dispatching: p is the tariff effective now.  The settings row *)
(* is read without a lock.                                                   *)
DispatchBlocked(k, p) ==
  paused # "no" \/ usage[k].price # p \/ TooLateFor(usage[k].month)

MarkDispatchingAgain(k, p) ==
  /\ usage[k].state \in {"reserved", "dispatching"}
  /\ ~DispatchBlocked(k, p)
  /\ usage' = [usage EXCEPT ![k].state = "dispatching"]
  /\ UNCHANGED <<clock, settled, reserved, limits, paused, hold>>

MarkDispatching(k, p) ==
  /\ usage[k].state = "reserved"
  /\ ~DispatchBlocked(k, p)
  /\ usage' = [usage EXCEPT ![k].state = "dispatching"]
  /\ UNCHANGED <<clock, settled, reserved, limits, paused, hold>>

BlockDispatch(k, p) ==
  /\ usage[k].state = "reserved"
  /\ DispatchBlocked(k, p)
  /\ EndUsage(k, "released", 0)
  /\ UNCHANGED paused

(* svc_ai_settle; a settled attempt is answered as a duplicate, any other    *)
(* state is refused.                                                         *)
Settle(k, billed) ==
  /\ usage[k].state \in Uncertain
  /\ EndUsage(k, "settled", billed)
  /\ paused' = IF billed > usage[k].amount THEN "over_reservation" ELSE paused

(* svc_ai_release                                                            *)
Release(k) ==
  /\ usage[k].state \in {"reserved", "dispatching"}
  /\ EndUsage(k, "released", 0)
  /\ UNCHANGED paused

(* svc_ai_mark_unknown                                                       *)
MarkUnknown(k) ==
  /\ usage[k].state = "dispatching"
  /\ usage' = [usage EXCEPT ![k].state = "unknown"]
  /\ UNCHANGED <<clock, settled, reserved, limits, paused, hold>>

(* svc_ai_rollover, every ten minutes: on conflict do nothing                *)
Carried(k, m) ==
  usage[k].state \in Uncertain /\ usage[k].month < m /\ usage[k].amount > 0

Rollover ==
  /\ hold' = [k \in Keys |->
       IF Carried(k, clock.month) /\ hold[k][clock.month] = "absent"
       THEN [hold[k] EXCEPT ![clock.month] = "held"] ELSE hold[k]]
  /\ UNCHANGED <<clock, settled, reserved, limits, paused, usage>>

(* svc_admin_update_budget, once its expected revision matches               *)
UpdateBudget(thresholds, clearPause) ==
  /\ limits' = thresholds
  /\ paused' = IF clearPause THEN "no" ELSE paused
  /\ UNCHANGED <<clock, settled, reserved, usage, hold>>

(* prepare_restored_database: a backup is one of the reachable states        *)
PrepareRestored ==
  /\ usage' = [k \in Keys |->
       IF usage[k].state \in {"reserved", "dispatching"}
       THEN [usage[k] EXCEPT !.state = "unknown"] ELSE usage[k]]
  /\ paused' = "restore"
  /\ UNCHANGED <<clock, settled, reserved, limits, hold>>

(* The environment: time passes. *)
CloseMonth ==
  /\ ~clock.closing
  /\ clock' = [clock EXCEPT !.closing = TRUE]
  /\ UNCHANGED <<settled, reserved, limits, paused, usage, hold>>

StartMonth ==
  /\ clock.closing
  /\ clock.month < LastMonth
  /\ clock' = [month |-> clock.month + 1, closing |-> FALSE]
  /\ UNCHANGED <<settled, reserved, limits, paused, usage, hold>>

Next ==
  \/ \E k \in Keys, p \in Prices :
       \/ AdmitReservation(k, p)
       \/ RefuseReservation(k, p)
       \/ MarkDispatching(k, p)
       \/ BlockDispatch(k, p)
  \/ \E k \in Keys, billed \in Bills : Settle(k, billed)
  \/ \E k \in Keys : Release(k) \/ MarkUnknown(k)
  \/ Rollover
  \/ \E t \in Thresholds, clearPause \in BOOLEAN : UpdateBudget(t, clearPause)
  \/ PrepareRestored
  \/ CloseMonth
  \/ StartMonth

BudgetSpec == Init /\ [][Next]_vars

-----------------------------------------------------------------------------
(* What an attempt u counts for in month m: its reservation while it is open,*)
(* its bill once settled, and how far that bill went above the reservation.  *)
Owes(u, m) == IF u.state \in Open /\ u.month = m THEN u.amount ELSE 0
Bill(u, m) == IF u.state = "settled" /\ u.month = m THEN u.billed ELSE 0
Excess(u, m) == IF Bill(u, m) > u.amount THEN u.billed - u.amount ELSE 0

OpenIn(m) == [k \in Keys |-> Owes(usage[k], m)]
BilledIn(m) == [k \in Keys |-> Bill(usage[k], m)]
ExcessIn(m) == [k \in Keys |-> Excess(usage[k], m)]

(* The counters of a month are exactly what its attempts add up to, however *)
(* settlements, releases, retries and restores interleave: no reservation   *)
(* leaks, none is given back twice, none goes negative (budget_periods,     *)
(* maintained by svc_ai_reserve and release_usage).                         *)
LedgerBalances ==
  \A m \in Months : /\ reserved[m] = Sum(OpenIn(m))
                    /\ settled[m] = Sum(BilledIn(m))

(* A month's own spending and reservations never pass the $10 ceiling by    *)
(* more than what the provider billed above its reservations, whatever      *)
(* thresholds the owner sets in between and however many attempts are open. *)
SpendBounded ==
  \A m \in Months : settled[m] + reserved[m] <= Ceiling + Sum(ExcessIn(m))

(* A hold stands in a later month for as long as the attempt may have been  *)
(* billed, and no longer (svc_ai_rollover, release_usage).                  *)
HoldsFollowDoubt ==
  \A k \in Keys, m \in Months :
    /\ hold[k][m] = "held" =>
         usage[k].state \in Uncertain /\ usage[k].month < m
    /\ hold[k][m] = "released" => usage[k].state \in {"settled", "released"}

(* What the proofs keep step by step: each part needs the others. *)
BudgetInv == TypeOK /\ LedgerBalances /\ SpendBounded /\ HoldsFollowDoubt

(* An attempt that was answered keeps its answer: a late settlement, release*)
(* or restore never reopens it, and an uncertain one only settles, or is     *)
(* released before it became unknown.                                       *)
AttemptsOnlyAdvance ==
  [][\A k \in Keys :
       /\ usage[k].state \in {"refused", "settled", "released"} =>
            usage'[k] = usage[k]
       /\ usage[k].state = "unknown" =>
            usage'[k].state \in {"unknown", "settled"}
       /\ usage[k].state # "none" =>
            /\ usage'[k].amount = usage[k].amount
            /\ usage'[k].month = usage[k].month]_vars

(* What earlier months may still be billed is not spent again: in the       *)
(* current month, spending, reservations and the uncertain amounts of       *)
(* earlier months stay within the ceiling (the comment of svc_ai_rollover). *)
DoubtIn(m) == [k \in Keys |->
  IF usage[k].state \in Uncertain /\ usage[k].month < m THEN usage[k].amount ELSE 0]

NotSpentTwice ==
  LET m == clock.month IN
  settled[m] + reserved[m] + Sum(DoubtIn(m)) <= Ceiling + Sum(ExcessIn(m))
=============================================================================
