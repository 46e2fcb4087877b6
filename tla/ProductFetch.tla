---------------------------- MODULE ProductFetch ----------------------------
(***************************************************************************)
(* The cart's parallel product fetch: ProductService.GetProducts           *)
(* (cart/pkg/productservice/getproduct.go), called by GetCart with the     *)
(* SKUs of a cart.                                                         *)
(*                                                                         *)
(* GetProducts starts one goroutine per SKU through an ErrGroup            *)
(* (cart/pkg/errorgroup): Go does wg.Add(1) and spawns.  Each goroutine    *)
(* waits on the rate limiter with the group's context, then calls          *)
(* GetProduct, whose HTTP client uses retryTransport                       *)
(* (cart/pkg/httpclient): up to Retries + 1 round trips, retrying while    *)
(* the round trip returns an error or status 420/429, sleeping between     *)
(* them.  A goroutine that succeeds writes its slot of `responses`; one    *)
(* that fails records its error through errOnce, which also cancels the    *)
(* group's context.  Wait waits for the WaitGroup and returns the          *)
(* recorded error.  The parent context (the cart's HTTP request) may be    *)
(* cancelled at any time.                                                  *)
(*                                                                         *)
(* Time is not modelled: the limiter's token and the retry delay only      *)
(* order steps, and their durations are what fairness abstracts.  A        *)
(* slot's name, price and SKU are one fact, that it was written.           *)
(***************************************************************************)
EXTENDS Integers, TLC

CONSTANTS
    NumSkus,         \* SKUs in the cart, one goroutine each
    Retries,         \* retryTransport.retries (HTTP_CLIENT_RETRIES)
    ParentMayCancel  \* TRUE: the request context may be cancelled

ASSUME NumSkus \in Nat \ {0} /\ Retries \in Nat /\ ParentMayCancel \in BOOLEAN

Slots == 1..NumSkus

VARIABLES
    spawned,   \* goroutines GetProducts's loop has started (eg.Go calls)
    mpc,       \* GetProducts: "spawning", "waiting" (in eg.Wait), "returned"
    wg,        \* the ErrGroup's WaitGroup counter
    gpc,       \* per slot: "idle", "limiter", "roundtrip", "done"
    tries,     \* per slot: round trips made by the current GetProduct
    err,       \* the ErrGroup's recorded error, NoErr until errOnce ran
    cancelled, \* the group's context is done
    parentCancelled,
    filled,    \* slots whose responses[i] was written
    result     \* what GetProducts returned: None, Ok or an error

vars == <<spawned, mpc, wg, gpc, tries, err, cancelled, parentCancelled,
          filled, result>>

(* What one round trip of the underlying transport gives.                  *)
OK           == "200"
NotFound     == "404"
Limited      == "429"          \* 420 is handled alike
ServerErr    == "500"          \* any other status
NetErr       == "transport error"
CtxErr       == "context error" \* the request's context is done

Responses == {OK, NotFound, Limited, ServerErr, NetErr}

(* The errors a goroutine returns.                                         *)
NoErr       == "nil"
ErrNotFound == "models.ErrNotFound"
ErrStatus   == "unexpected status"
ErrSending  == "sending request"
ErrCanceled == "context canceled"

Errors == {ErrNotFound, ErrStatus, ErrSending, ErrCanceled}

None == "none"
Ok   == "ok"

-----------------------------------------------------------------------------
(* retryTransport.RoundTrip returns at once only for a response that is    *)
(* not an error and not 420/429; otherwise it sleeps and tries again.      *)
Retried(r) == r \in {Limited, NetErr, CtxErr}

(* GetProduct's reading of what RoundTrip finally returned: a transport    *)
(* error is "sending request" (wrapping the context's error when it is     *)
(* done), 404 is ErrNotFound, any other non-200 status "unexpected         *)
(* status".                                                                *)
GetProductError ==
    (OK :> NoErr) @@ (NotFound :> ErrNotFound) @@ (Limited :> ErrStatus)
    @@ (ServerErr :> ErrStatus) @@ (NetErr :> ErrSending)
    @@ (CtxErr :> ErrCanceled)

(* Mutation: the error is recorded without errOnce, so a later failure    *)
(* overwrites the first.                                                   *)
FinishNoOnce(t, e) ==
    /\ filled' = IF e = NoErr THEN filled \cup {t} ELSE filled
    /\ err' = IF e = NoErr THEN err ELSE e
    /\ cancelled' = (cancelled \/ e # NoErr)
    /\ wg' = wg - 1
    /\ gpc' = [gpc EXCEPT ![t] = "done"]

(* Mutation: the error path returns without wg.Done.                      *)
FinishNoDoneOnError(t, e) ==
    /\ filled' = IF e = NoErr THEN filled \cup {t} ELSE filled
    /\ err' = IF e # NoErr /\ err = NoErr THEN e ELSE err
    /\ cancelled' = (cancelled \/ e # NoErr)
    /\ wg' = IF e = NoErr THEN wg - 1 ELSE wg
    /\ gpc' = [gpc EXCEPT ![t] = "done"]

(* The end of the goroutine eg.Go runs: on success the closure has written *)
(* responses[i]; on an error errOnce.Do records it and cancels the         *)
(* group's context, the first time only; the deferred wg.Done runs.        *)
Finish(t, e) ==
    /\ filled' = IF e = NoErr THEN filled \cup {t} ELSE filled
    /\ err' = IF e # NoErr /\ err = NoErr THEN e ELSE err
    /\ cancelled' = (cancelled \/ e # NoErr)
    /\ wg' = wg - 1
    /\ gpc' = [gpc EXCEPT ![t] = "done"]

(* GetProducts's loop calls eg.Go for the next SKU: wg.Add(1) and the     *)
(* goroutine starts.  After the last one the loop calls eg.Wait.           *)
Go(t) ==
    /\ mpc = "spawning"
    /\ t = spawned + 1
    /\ spawned' = t
    /\ mpc' = IF t = NumSkus THEN "waiting" ELSE "spawning"
    /\ wg' = wg + 1
    /\ gpc' = [gpc EXCEPT ![t] = "limiter"]
    /\ UNCHANGED <<tries, err, cancelled, parentCancelled, filled, result>>

(* limiter.Wait(eg.Context()): returns the context's error if it is done,  *)
(* else takes the token and GetProduct sends its request.                  *)
LimiterWait(t) ==
    /\ gpc[t] = "limiter"
    /\ IF cancelled
         THEN Finish(t, ErrCanceled)
         ELSE /\ gpc' = [gpc EXCEPT ![t] = "roundtrip"]
              /\ UNCHANGED <<wg, err, cancelled, filled>>
    /\ UNCHANGED <<spawned, mpc, tries, parentCancelled, result>>

(* Mutation: the loop's bound is off by one and makes Retries + 2         *)
(* attempts.                                                               *)
RoundTripExtraAttempt(t, r) ==
    /\ gpc[t] = "roundtrip"
    /\ r = CtxErr <=> cancelled
    /\ tries' = [tries EXCEPT ![t] = @ + 1]
    /\ IF ~Retried(r) \/ tries[t] = Retries + 1
         THEN Finish(t, GetProductError[r])
         ELSE UNCHANGED <<wg, gpc, err, cancelled, filled>>
    /\ UNCHANGED <<spawned, mpc, parentCancelled, result>>

(* One iteration of retryTransport.RoundTrip's loop.  With the context     *)
(* done the transport fails at once with its error.  A response that is    *)
(* not retried, or the last of Retries + 1 attempts, ends GetProduct.       *)
RoundTrip(t, r) ==
    /\ gpc[t] = "roundtrip"
    /\ r = CtxErr <=> cancelled
    /\ tries' = [tries EXCEPT ![t] = @ + 1]
    /\ IF ~Retried(r) \/ tries[t] = Retries
         THEN Finish(t, GetProductError[r])
         ELSE UNCHANGED <<wg, gpc, err, cancelled, filled>>
    /\ UNCHANGED <<spawned, mpc, parentCancelled, result>>

(* Mutation: Wait returns as soon as an error is recorded, without        *)
(* joining the goroutines still running.                                   *)
WaitOnFirstError ==
    /\ mpc = "waiting"
    /\ wg = 0 \/ err # NoErr
    /\ mpc' = "returned"
    /\ result' = IF err = NoErr THEN Ok ELSE err
    /\ UNCHANGED <<spawned, wg, gpc, tries, err, cancelled, parentCancelled,
                   filled>>

(* eg.Wait returns once the WaitGroup is zero; GetProducts returns the     *)
(* recorded error, or the filled responses.                                *)
Wait ==
    /\ mpc = "waiting"
    /\ wg = 0
    /\ mpc' = "returned"
    /\ result' = IF err = NoErr THEN Ok ELSE err
    /\ UNCHANGED <<spawned, wg, gpc, tries, err, cancelled, parentCancelled,
                   filled>>

(* The cart's HTTP request is cancelled (the client went away): the group  *)
(* context, derived from it by NewErrGroup, is done too.                   *)
ParentCancel ==
    /\ ParentMayCancel
    /\ ~parentCancelled
    /\ mpc # "returned"
    /\ parentCancelled' = TRUE
    /\ cancelled' = TRUE
    /\ UNCHANGED <<spawned, mpc, wg, gpc, tries, err, filled, result>>

Init ==
    /\ spawned = 0
    /\ mpc = "spawning"
    /\ wg = 0
    /\ gpc = [t \in Slots |-> "idle"]
    /\ tries = [t \in Slots |-> 0]
    /\ err = NoErr
    /\ cancelled = FALSE
    /\ parentCancelled = FALSE
    /\ filled = {}
    /\ result = None

Goroutine(t) ==
    \/ LimiterWait(t)
    \/ \E r \in Responses \cup {CtxErr} : RoundTrip(t, r)

Next ==
    \/ \E t \in Slots : Go(t) \/ Goroutine(t)
    \/ Wait
    \/ ParentCancel

(* The runtime schedules every runnable goroutine; each call a goroutine   *)
(* blocks in returns (the limiter's delay is finite, the HTTP client has a *)
(* Timeout).  The parent's cancellation is the client's choice.            *)
Fairness ==
    /\ \A t \in Slots : WF_vars(Goroutine(t))
    /\ WF_vars(\E t \in Slots : Go(t))
    /\ WF_vars(Wait)

Spec == Init /\ [][Next]_vars /\ Fairness

-----------------------------------------------------------------------------
TypeOK ==
    /\ spawned \in 0..NumSkus
    /\ mpc \in {"spawning", "waiting", "returned"}
    /\ wg \in 0..NumSkus
    /\ gpc \in [Slots -> {"idle", "limiter", "roundtrip", "done"}]
    /\ tries \in [Slots -> 0..Retries + 1]
    /\ err \in Errors \cup {NoErr}
    /\ cancelled \in BOOLEAN
    /\ parentCancelled \in BOOLEAN
    /\ filled \subseteq Slots
    /\ result \in Errors \cup {None, Ok}

(* eg.Wait joins every goroutine: when GetProducts returns, no goroutine   *)
(* is still running (none writes responses after GetCart reads it), and a  *)
(* nil error means every SKU's slot was filled.                            *)
WaitJoinsAll ==
    result # None =>
        /\ \A t \in Slots : gpc[t] = "done"
        /\ result = Ok => filled = Slots

(* The error GetCart reports is the failure that stopped the group, never  *)
(* the cancellation the group then inflicted on the other fetches: a       *)
(* "context canceled" comes back only when the caller's request was        *)
(* cancelled.  (GetCart maps ErrNotFound to ErrProductNotFound, a 400;     *)
(* any other error is a 500.)                                              *)
ErrorIsCause ==
    result = ErrCanceled => parentCancelled

(* GetProducts returns: every goroutine ends after at most Retries + 1     *)
(* round trips, also once the group is cancelled, and Wait then returns.   *)
GetProductsReturns == <>(result # None)

=============================================================================
