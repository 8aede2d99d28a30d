------------------------------ MODULE AiGateway ------------------------------
(***************************************************************************)
(* runAiTask (ai-gateway.ts), the only way to a billable provider call: a  *)
(* run reserves, counts the input's tokens, marks the attempt dispatching, *)
(* sends, and accounts for the answer.  Every await is a point where other *)
(* runs move and where the Edge function may die.                          *)
(*                                                                         *)
(* Several runs may carry one attempt key at once: a diagnostic repeated   *)
(* with its Idempotency-Key, or a tag job claimed again after the worker's *)
(* 90 second timeout while the first call to /ai still runs (a lease retry *)
(* reuses the identity, p1_02:515).                                        *)
(***************************************************************************)
EXTENDS AiBudget

CONSTANTS
  Runs,       \* calls of runAiTask that may ever be made
  KeyOf,      \* run -> its attempt key
  NextPrice   \* price -> the one that replaces it in the catalogue

ASSUME RunsAssumption ==
  /\ KeyOf \in [Runs -> Keys]
  /\ NextPrice \in [Prices -> Prices]
  /\ 0 \in Bills
  /\ \A p \in Prices : {Normal[p], Lighter[p]} \subseteq Bills

VARIABLES
  tariff,    \* the price version effective now
  run,       \* run -> where it stands, and the price versions it has read
  sent,      \* attempt key -> generateContent calls that left for the provider
  rejected,  \* attempt keys the provider refused before processing (4xx)
  charge     \* attempt key -> what the call that left costs, unless refused;
             \* only the provider knows, until an answer reports its tokens

gatewayVars == <<tariff, run, sent, rejected, charge>>
allVars == <<vars, gatewayVars>>

(* unavailable, done, threw: how runAiTask ended; threw is also a function   *)
(* that was killed                                                           *)
Ended == {"unavailable", "done", "threw"}
Awaits == {"reserve", "count", "give_up", "mark", "send", "answer",
           "reject", "doubt", "settle"}

Runnings == [at : {"idle"} \cup Awaits \cup Ended,
             price : Prices, quote : Prices, bill : Bills]

GatewayTypeOK ==
  /\ tariff \in Prices
  /\ run \in [Runs -> Runnings]
  /\ sent \in [Keys -> Nat]
  /\ rejected \subseteq Keys
  /\ charge \in [Keys -> Bills]
  /\ \A k \in Keys : usage[k].amount \in Bills

GatewayInit ==
  /\ Init
  /\ tariff \in Prices
  /\ run = [r \in Runs |->
              [at |-> "idle", price |-> tariff, quote |-> tariff, bill |-> 0]]
  /\ sent = [k \in Keys |-> 0]
  /\ rejected = {}
  /\ charge = [k \in Keys |-> 0]

-----------------------------------------------------------------------------
At(r, here) == run[r].at = here
Moves(r, there, price, quote, bill) ==
  run' = [run EXCEPT ![r] = [at |-> there, price |-> price, quote |-> quote, bill |-> bill]]
Goes(r, there) == Moves(r, there, run[r].price, run[r].quote, 0)
UsageOf(r) == usage[KeyOf[r]]
NoCall == UNCHANGED <<tariff, sent, rejected, charge>>

(* The effective price is read before the reservation, and again before the *)
(* dispatch.  AI disabled, or no single price in force: it ends before any   *)
(* accounting.                                                               *)
Start(r) ==
  /\ At(r, "idle")
  /\ \/ Moves(r, "reserve", tariff, run[r].quote, 0)
     \/ Goes(r, "done")
  /\ NoCall /\ UNCHANGED vars

Reserve(r) ==
  /\ At(r, "reserve")
  /\ \/ AdmitReservation(KeyOf[r], run[r].price) /\ Goes(r, "count")
     \/ RefuseReservation(KeyOf[r], run[r].price) /\ Goes(r, "done")
  /\ NoCall

(* An attempt that exists is taken up where it was only reserved.            *)
ReserveExisting(r) ==
  /\ At(r, "reserve")
  /\ UsageOf(r).state # "none"
  /\ Goes(r, IF UsageOf(r).state = "reserved" THEN "count" ELSE "done")
  /\ NoCall /\ UNCHANGED vars

(* countTokens: too large, failed or timed out, or admitted                  *)
CountTokens(r) ==
  /\ At(r, "count")
  /\ \/ Goes(r, "give_up")
     \/ Moves(r, "mark", run[r].price, tariff, 0)
  /\ NoCall /\ UNCHANGED vars

ReleaseAndEndUncounted(r, outcome) ==
  /\ Goes(r, outcome)
  /\ \/ /\ UsageOf(r).state \in {"reserved", "dispatching"}
        /\ usage' = [usage EXCEPT ![KeyOf[r]].state = "released"]
        /\ UNCHANGED <<clock, settled, reserved, limits, paused, hold>>
     \/ UsageOf(r).state \notin {"reserved", "dispatching"} /\ UNCHANGED vars
  /\ NoCall

(* svc_ai_release, which answers without effect unless the attempt is        *)
(* reserved or dispatching                                                   *)
ReleaseAndEnd(r, outcome) ==
  /\ Goes(r, outcome)
  /\ \/ Release(KeyOf[r])
     \/ UsageOf(r).state \notin {"reserved", "dispatching"} /\ UNCHANGED vars
  /\ NoCall

GiveUpWithoutRelease(r) ==
  /\ At(r, "give_up")
  /\ Goes(r, "unavailable")
  /\ NoCall /\ UNCHANGED vars

GiveUp(r) == At(r, "give_up") /\ ReleaseAndEnd(r, "unavailable")

MarkBeforeSending(r) ==
  /\ At(r, "mark")
  /\ \/ MarkDispatching(KeyOf[r], run[r].quote) /\ Goes(r, "send")
     \/ BlockDispatch(KeyOf[r], run[r].quote) /\ Goes(r, "done")
     \/ UsageOf(r).state # "reserved" /\ Goes(r, "done") /\ UNCHANGED vars
  /\ NoCall

(* What the call will cost is the provider's to say: any amount, counted at  *)
(* the price version of the run that sends it.                               *)
Send(r) ==
  /\ At(r, "send")
  /\ Goes(r, "answer")
  /\ sent' = [sent EXCEPT ![KeyOf[r]] = @ + 1]
  /\ \E cost \in Bills : charge' = [charge EXCEPT ![KeyOf[r]] = cost]
  /\ UNCHANGED <<tariff, rejected>> /\ UNCHANGED vars

AnsweredWith(r, bills) ==
  /\ At(r, "answer")
  /\ \E billed \in bills :
       Moves(r, "settle", run[r].price, run[r].quote, billed)
  /\ NoCall /\ UNCHANGED vars

ProviderAnswersFreely(r) == AnsweredWith(r, {charge[KeyOf[r]], 0})

(* generateContent returns usage, which prices the call, or an answer without*)
(* usage, billed at the reservation; or (below) a 4xx, or anything else: a   *)
(* timeout, a 5xx, a lost answer.                                            *)
ProviderAnswers(r) == AnsweredWith(r, {charge[KeyOf[r]], UsageOf(r).amount})

ProviderRejects(r) ==
  /\ At(r, "answer")
  /\ Goes(r, "reject")
  /\ rejected' = rejected \cup {KeyOf[r]}
  /\ UNCHANGED <<tariff, sent, charge>> /\ UNCHANGED vars

ProviderFails(r) ==
  /\ At(r, "answer")
  /\ Goes(r, "doubt")
  /\ NoCall /\ UNCHANGED vars

AccountRejected(r) == At(r, "reject") /\ ReleaseAndEnd(r, "done")

AccountDoubtAsUnbilled(r) == At(r, "doubt") /\ ReleaseAndEnd(r, "done")

AccountDoubt(r) ==
  /\ At(r, "doubt")
  /\ Goes(r, "done")
  /\ \/ MarkUnknown(KeyOf[r])
     \/ UsageOf(r).state # "dispatching" /\ UNCHANGED vars
  /\ NoCall

(* svc_ai_settle: a duplicate is answered, any other state raises            *)
AccountBill(r) ==
  /\ At(r, "settle")
  /\ \/ Settle(KeyOf[r], run[r].bill) /\ Goes(r, "done")
     \/ UsageOf(r).state = "settled" /\ Goes(r, "done") /\ UNCHANGED vars
     \/ UsageOf(r).state \notin Uncertain \cup {"settled"}
          /\ Goes(r, "threw") /\ UNCHANGED vars
  /\ NoCall

(* The function is killed, or an accounting call fails before its effect; a *)
(* call whose answer is lost is that call, and then this.  Two concurrent    *)
(* reservations of a new key are one of them and a unique violation, which   *)
(* is this too.                                                              *)
Die(r) ==
  /\ run[r].at \in Awaits
  /\ Goes(r, "threw")
  /\ NoCall /\ UNCHANGED vars

(* The restored database is isolated: no run of the old one reaches it.      *)
RestoreDatabase ==
  /\ PrepareRestored
  /\ run' = [r \in Runs |->
               IF run[r].at \in Awaits THEN [run[r] EXCEPT !.at = "threw"] ELSE run[r]]
  /\ NoCall

(* Calls of the budget that runs do not make, and time.                      *)
BudgetAlone ==
  /\ \/ Rollover \/ CloseMonth \/ StartMonth
     \/ \E t \in Thresholds, clearPause \in BOOLEAN : UpdateBudget(t, clearPause)
  /\ UNCHANGED gatewayVars

ChangeTariff ==
  /\ tariff' = NextPrice[tariff]
  /\ UNCHANGED <<run, sent, rejected, charge>> /\ UNCHANGED vars

Step(r) ==
  \/ Start(r) \/ Reserve(r) \/ ReserveExisting(r) \/ CountTokens(r) \/ GiveUp(r)
  \/ MarkBeforeSending(r) \/ Send(r)
  \/ ProviderAnswers(r) \/ ProviderRejects(r) \/ ProviderFails(r)
  \/ AccountRejected(r) \/ AccountDoubt(r) \/ AccountBill(r) \/ Die(r)

GatewayNext ==
  \/ \E r \in Runs : Step(r)
  \/ RestoreDatabase
  \/ BudgetAlone
  \/ ChangeTariff

GatewaySpec == GatewayInit /\ [][GatewayNext]_allVars

-----------------------------------------------------------------------------
RunsOf(k) == {r \in Runs : KeyOf[r] = k}
MayBeBilled(k) == sent[k] > 0 /\ k \notin rejected
Counted(k) == usage[k].state \in Uncertain \cup {"settled"}
GivenUp(k) == \E r \in RunsOf(k) : At(r, "unavailable")

(* An attempt key reaches the provider at most once, however many runs carry*)
(* it, wherever they die, and whatever the owner, the month's end and a     *)
(* restore do between their steps ("never re-sent", ai-gateway.ts:103).     *)
SentOnce == \A k \in Keys : sent[k] <= 1

(* A call that may have been billed stays counted against the allowance,    *)
(* unless a second run of the same attempt gave its token count up.         *)
PaidCallsCountedUnlessGivenUp ==
  \A k \in Keys : MayBeBilled(k) => Counted(k) \/ GivenUp(k)

(* The same without the exception: what "a known unbilled outcome" of       *)
(* svc_ai_release says.                                                     *)
PaidCallsCounted == \A k \in Keys : MayBeBilled(k) => Counted(k)

ChargeOf(k, m) ==
  IF MayBeBilled(k) /\ usage[k].month = m THEN charge[k] ELSE 0

(* The part of it nothing could foresee: what it costs above the reservation *)
(* it was sent under, or all of it when another run gave the attempt up.     *)
Unforeseen(k, m) ==
  IF GivenUp(k) THEN ChargeOf(k, m)
  ELSE IF ChargeOf(k, m) > usage[k].amount THEN ChargeOf(k, m) - usage[k].amount
  ELSE 0

ChargesIn(m) == [k \in Keys |-> ChargeOf(k, m)]
UnforeseenIn(m) == [k \in Keys |-> Unforeseen(k, m)]

(* What the provider really charges for a month's calls stays within the $10*)
(* ceiling, whatever the ledger was told of them: calls that timed out, were*)
(* answered without usage, or whose function died before it accounted for   *)
(* the answer are covered too.  Only a charge above its reservation, or an   *)
(* attempt given up by a second run, can take it further (ai-gateway.ts:     *)
(* reserve before sending, "settle conservatively at the reservation").      *)
ChargesBounded ==
  \A m \in Months : Sum(ChargesIn(m)) <= Ceiling + Sum(UnforeseenIn(m))

(* A reservation is given back or accounted for by whoever works on the     *)
(* attempt: it is never left standing by runs that all returned normally.   *)
(* Only a run that died leaves one behind.                                  *)
BeforeDispatch == {"count", "give_up", "mark"}
Owning == {"send", "answer", "reject", "doubt", "settle"}

NothingLeaks ==
  \A k \in Keys :
    /\ usage[k].state = "reserved" =>
         \E r \in RunsOf(k) : run[r].at \in BeforeDispatch \cup {"threw"}
    /\ usage[k].state = "dispatching" =>
         \E r \in RunsOf(k) : run[r].at \in Owning \cup {"threw"}

(* A reservation made under an earlier tariff never authorizes a call: a run*)
(* sends only what was reserved at the price in force when it had counted   *)
(* its tokens, whichever run of the key made the reservation.               *)
AuthorizedTariff ==
  \A r \in Runs :
    run[r].at \in {"send", "answer"} => run[r].quote = UsageOf(r).price

(* The bill of a call is computed with the price its reservation was made   *)
(* with: no call runs on an expired tariff.                                 *)
BilledAsReserved ==
  \A r \in Runs : At(r, "settle") => run[r].price = UsageOf(r).price

(* The invariant of the proofs: a run past its dispatch owns the attempt     *)
(* alone, and the attempt's row says for ever that its dispatch was decided. *)
Decided == {"dispatching", "unknown", "settled", "released"}

OneOwner ==
  \A r, q \in Runs :
    KeyOf[r] = KeyOf[q] /\ run[r].at \in Owning /\ run[q].at \in Owning => r = q

OwnersDecided ==
  \A r \in Runs :
    run[r].at \in Owning =>
      /\ UsageOf(r).state \in Decided
      /\ sent[KeyOf[r]] = IF At(r, "send") THEN 0 ELSE 1
      /\ At(r, "reject") => KeyOf[r] \in rejected

SentDecided == \A k \in Keys : sent[k] > 0 => usage[k].state \in Decided

SendersCounted ==
  \A r \in Runs : At(r, "send") =>
    Counted(KeyOf[r]) \/ GivenUp(KeyOf[r])

(* What the ledger was told of a call is its charge or its reservation.      *)
ChargesReported ==
  /\ \A r \in Runs : At(r, "settle") =>
       run[r].bill \in {charge[KeyOf[r]], UsageOf(r).amount}
  /\ \A k \in Keys : usage[k].state = "settled" =>
       sent[k] = 1 /\ usage[k].billed \in {charge[k], usage[k].amount}

GatewayInv ==
  /\ BudgetInv
  /\ GatewayTypeOK
  /\ SentOnce
  /\ OneOwner
  /\ OwnersDecided
  /\ SentDecided
  /\ SendersCounted
  /\ NothingLeaks
  /\ PaidCallsCountedUnlessGivenUp
  /\ ChargesReported
=============================================================================
