---------------------------- MODULE RajomonTokens ----------------------------
(***************************************************************************)
(* The end-user side of Rajomon: UnaryInterceptorEnduser, run by every call *)
(* in its caller's goroutine, and tokenRefill, the goroutine that adds      *)
(* tokens and wakes one waiting call.  They share tokensLeft, which is read *)
(* and written without synchronisation (atomicTokens is never set), and     *)
(* rateLimiter, a channel of capacity one.  DeductTokens reads tokensLeft    *)
(* to compare, reads it again to subtract from and then writes it: three     *)
(* steps, between which other calls and the refill go on.                   *)
(*                                                                         *)
(* Source: src/rajomon-main/rajomon.go and initOptions.go.  Tokens above    *)
(* Cap or below -Floor are stored as Cap and -Floor (bounds).  No name is    *)
(* one of RajomonPrices, so that RajomonProofs extends both; DagorEntry is   *)
(* to DagorServer the same.                                                 *)
(***************************************************************************)
EXTENDS Integers, FiniteSets

CONSTANTS
  UserCalls,        \* slots for calls; a finished slot is reused
  MethodPrices,     \* prices of the method that responses carry
  InitTokens,       \* tokensLeft of the options
  RefillStep,       \* tokenUpdateStep
  Cap, Floor,       \* bounds on tokensLeft, from above and from below
  Options           \* the options NewRajomon may be given, see AllOptions

\* rateLimiting, clientTimeOut > 0 (rateLimitWaiting), clientBackoff > 0, and whether
\* tokenStrategy is "uniform".
AllOptions == [limiting : BOOLEAN, waiting : BOOLEAN, backoff : BOOLEAN, uniform : BOOLEAN]

ASSUME TokensAssumption ==
  /\ MethodPrices \subseteq Nat
  /\ 0 \in MethodPrices
  /\ RefillStep \in Nat \ {0}
  /\ Cap \in Nat /\ Floor \in Nat
  /\ InitTokens \in 0 .. Cap
  /\ Options \subseteq AllOptions

VARIABLES
  options,     \* the options, which never change
  tokensLeft,
  rateLimiter, \* the channel holds its value
  price,       \* the method's downstream price in priceTableMap
  backedOff,   \* less than clientBackoff since lastRateLimitedTime
  pc,          \* per call: program counter
  tok,         \* per call: the tokens it took a look at
  loaded,      \* per call: tokensLeft as DeductTokens read it to subtract from
  expired,     \* per call: more than clientTimeOut since startTime
  refill,      \* tokenRefill: "tick", "store" or "wake"
  added,       \* tokenRefill: the sum it is about to store
  crossed   \* history: two calls have been in DeductTokens, past its comparison, at once

shared == <<options, tokensLeft, rateLimiter, price, backedOff>>
callVars == <<pc, tok, loaded, expired, crossed>>
refillVars == <<refill, added>>
userVars == <<shared, callVars, refillVars>>

PCs == {"idle", "loop", "price", "limited", "wait", "deduct", "take", "store", "requeue",
        "sent"}

Bounded(tokens) == IF tokens > Cap THEN Cap ELSE IF tokens < -Floor THEN -Floor ELSE tokens

Goto(c, from, to) == pc[c] = from /\ pc' = [pc EXCEPT ![c] = to]

UserInit ==
  /\ options \in Options
  /\ tokensLeft = InitTokens
  /\ rateLimiter = FALSE
  /\ price = 0
  /\ backedOff = FALSE
  /\ pc = [c \in UserCalls |-> "idle"]
  /\ tok = [c \in UserCalls |-> 0]
  /\ loaded = [c \in UserCalls |-> 0]
  /\ expired = [c \in UserCalls |-> FALSE]
  /\ refill = "tick"
  /\ added = 0
  /\ crossed = FALSE
-----------------------------------------------------------------------------
(* UnaryInterceptorEnduser.                                                 *)

\* A call in the backoff is turned away at once, unless it may wait: it stays idle.
Call(c) ==
  /\ ~(options.backoff /\ backedOff /\ ~options.waiting)
  /\ Goto(c, "idle", "loop")
  /\ UNCHANGED <<shared, tok, loaded, expired, refillVars, crossed>>

\* The loop is left for a step of the call in which its locals are not looked at any more.
Leave(c, step) ==
  /\ pc' = [pc EXCEPT ![c] = step]
  /\ tok' = [tok EXCEPT ![c] = 0]
  /\ loaded' = [loaded EXCEPT ![c] = 0]
  /\ expired' = [expired EXCEPT ![c] = FALSE]

\* The call's slot is free again.
Finish(c) == Leave(c, "idle")

\* The deadline is looked at only here, at the head of the loop.
TimeOut(c) ==
  /\ pc[c] = "loop"
  /\ options.limiting /\ options.waiting /\ expired[c]
  /\ Finish(c)
  /\ UNCHANGED <<shared, crossed, refillVars>>

\* GetTokensLeft, and a random part of them with the uniform strategy: a debt is taken as it is.
Look(c) ==
  /\ options.limiting
  /\ ~(options.waiting /\ expired[c])
  /\ Goto(c, "loop", "price")
  /\ tok' \in {[tok EXCEPT ![c] = t] :
                 t \in IF options.uniform /\ tokensLeft > 0
                       THEN 0 .. tokensLeft - 1 ELSE {tokensLeft}}
  /\ UNCHANGED <<shared, loaded, expired, refillVars, crossed>>

\* Without rate limiting a call goes with the tokens there are.
GoUnlimited(c) ==
  /\ pc[c] = "loop"
  /\ ~options.limiting
  /\ Leave(c, "sent")
  /\ UNCHANGED <<shared, refillVars, crossed>>

\* RateLimiting: a call whose tokens pay the price leaves the loop with all its tokens.
Pay(c) ==
  /\ pc[c] = "price"
  /\ tok[c] >= price
  /\ Leave(c, "sent")
  /\ UNCHANGED <<shared, refillVars, crossed>>

\* Another is limited.
BeLimited(c) ==
  /\ tok[c] < price
  /\ Goto(c, "price", "limited")
  /\ UNCHANGED <<shared, tok, loaded, expired, refillVars, crossed>>

StartBackoff == backedOff' = (backedOff \/ options.backoff)

Drop(c) ==
  /\ pc[c] = "limited"
  /\ ~options.waiting
  /\ StartBackoff
  /\ Finish(c)
  /\ UNCHANGED <<options, tokensLeft, rateLimiter, price, crossed, refillVars>>

Wait(c) ==
  /\ options.waiting
  /\ Goto(c, "limited", "wait")
  /\ StartBackoff
  /\ UNCHANGED <<options, tokensLeft, rateLimiter, price, tok, loaded, expired, refillVars, crossed>>

\* <-pt.rateLimiter
Woken(c) ==
  /\ rateLimiter
  /\ Goto(c, "wait", "deduct")
  /\ rateLimiter' = FALSE
  /\ UNCHANGED <<options, tokensLeft, price, backedOff, tok, loaded, expired, refillVars, crossed>>

\* DeductTokens: the tokens looked at before the wait must still be there.
TakeCompare(c) ==
  /\ tokensLeft - tok[c] >= 0
  /\ Goto(c, "deduct", "take")
  /\ crossed' = (crossed \/ \E d \in UserCalls : pc[d] \in {"take", "store"})
  /\ UNCHANGED <<shared, tok, loaded, expired, refillVars>>

\* What is subtracted from is read again: other calls may have taken tokens meanwhile.
TakeLoad(c) ==
  /\ Goto(c, "take", "store")
  /\ loaded' = [loaded EXCEPT ![c] = tokensLeft]
  /\ UNCHANGED <<shared, tok, expired, refillVars, crossed>>

\* A call that looked at a debt subtracts a negative number and so adds tokens.
TakeStore(c) ==
  /\ pc[c] = "store"
  /\ tokensLeft' = Bounded(loaded[c] - tok[c])
  /\ Leave(c, "sent")
  /\ UNCHANGED <<options, rateLimiter, price, backedOff, refillVars, crossed>>

\* Otherwise the call waits once more and goes back to the head of the loop.
TakeNone(c) ==
  /\ tokensLeft - tok[c] < 0
  /\ Goto(c, "deduct", "requeue")
  /\ UNCHANGED <<shared, tok, loaded, expired, refillVars, crossed>>

WokenAgain(c) ==
  /\ rateLimiter
  /\ Goto(c, "requeue", "loop")
  /\ rateLimiter' = FALSE
  /\ UNCHANGED <<options, tokensLeft, price, backedOff, tok, loaded, expired, refillVars, crossed>>

\* The response, which may carry the price of the method.
Receive(c) ==
  /\ pc[c] = "sent"
  /\ Finish(c)
  /\ price' \in {price} \union MethodPrices
  /\ UNCHANGED <<options, tokensLeft, rateLimiter, backedOff, crossed, refillVars>>
-----------------------------------------------------------------------------
(* tokenRefill, with a fixed step.                                          *)

AddLoad ==
  /\ refill = "tick"
  /\ refill' = "store"
  /\ added' = tokensLeft + RefillStep
  /\ UNCHANGED <<shared, callVars>>

AddStore ==
  /\ refill = "store"
  /\ refill' = "wake"
  /\ tokensLeft' = Bounded(added)
  /\ added' = 0
  /\ UNCHANGED <<options, rateLimiter, price, backedOff, callVars>>

\* Mutant: a full channel makes the refill wait.
UnblockOrWait ==
  /\ refill = "wake"
  /\ options.waiting => ~rateLimiter
  /\ refill' = "tick"
  /\ rateLimiter' = (rateLimiter \/ options.waiting)
  /\ UNCHANGED <<options, tokensLeft, price, backedOff, callVars, added>>

\* Mutant: no wake-up when the bucket is full.
UnblockIfAdded ==
  /\ refill = "wake"
  /\ refill' = "tick"
  /\ rateLimiter' = (rateLimiter \/ (options.waiting /\ tokensLeft < Cap))
  /\ UNCHANGED <<options, tokensLeft, price, backedOff, callVars, added>>

\* unblockRateLimiter: a full channel is left as it is.
Unblock ==
  /\ refill = "wake"
  /\ refill' = "tick"
  /\ rateLimiter' = (rateLimiter \/ options.waiting)
  /\ UNCHANGED <<options, tokensLeft, price, backedOff, callVars, added>>
-----------------------------------------------------------------------------
(* The clock.                                                               *)

Expire(c) ==
  /\ pc[c] \notin {"idle", "sent"}
  /\ ~expired[c]
  /\ expired' = [expired EXCEPT ![c] = TRUE]
  /\ UNCHANGED <<shared, pc, tok, loaded, refillVars, crossed>>

EndBackoff ==
  /\ backedOff
  /\ backedOff' = FALSE
  /\ UNCHANGED <<options, tokensLeft, rateLimiter, price, callVars, refillVars>>
-----------------------------------------------------------------------------
\* What a call does when nothing makes it wait.
Run(c) ==
  \/ TimeOut(c) \/ Look(c) \/ GoUnlimited(c) \/ Pay(c) \/ BeLimited(c) \/ Drop(c) \/ Wait(c)
  \/ TakeCompare(c) \/ TakeLoad(c) \/ TakeStore(c) \/ TakeNone(c) \/ Receive(c)
Refill == AddLoad \/ AddStore \/ Unblock

UserNext ==
  \/ \E c \in UserCalls : \/ Call(c) \/ Run(c) \/ Woken(c) \/ WokenAgain(c) \/ Expire(c)
  \/ Refill
  \/ EndBackoff

UserSpec == UserInit /\ [][UserNext]_userVars

\* Goroutines that can run do, time passes, and a channel serves its receivers in turn.
UserFairness ==
  /\ \A c \in UserCalls : /\ WF_userVars(Run(c)) /\ WF_userVars(Expire(c))
                          /\ SF_userVars(Woken(c) \/ WokenAgain(c))
  /\ WF_userVars(Refill)

FairUserSpec == UserSpec /\ UserFairness
-----------------------------------------------------------------------------
\* The refill and one DeductTokens at a time never overdraw: their updates may undo each
\* other, and the tokens a call looked at before it slept may be gone, but tokensLeft stays
\* positive until two calls are in DeductTokens at once.
SoleDeduction == tokensLeft < 0 => crossed

\* Calls that were in DeductTokens at once may leave a debt, and a late store may bring it
\* back; it is always paid, by the refill alone if no call comes.
OverdraftEnds == tokensLeft < 0 ~> tokensLeft >= 0

\* Every call ends, with a response or an error: the refill wakes waiting calls one at a
\* time and a call that keeps losing its tokens to others meets its deadline.
Answered == \A c \in UserCalls : pc[c] # "idle" ~> pc[c] = "idle"

=============================================================================
