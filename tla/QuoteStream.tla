---------------------------- MODULE QuoteStream -----------------------------
(***************************************************************************)
(* The best quote and the mark price of one symbol, as pushed over one     *)
(* connection (PublicQuoteStream in src/trading/market_stream.py) and, in  *)
(* its absence, read by REST (MarketData.book in exchange.py).             *)
(*                                                                         *)
(* A quote is the time it was made at the exchange.  Time advances in      *)
(* seconds; the wall clock of this machine may be wrong and may be set at  *)
(* any moment, its monotonic clock may not.  Messages can overtake one     *)
(* another and can be unreadable.  Prices and quantities are left out: a   *)
(* message with invalid ones is one that cannot be read.                   *)
(***************************************************************************)
EXTENDS Integers, FiniteSets

CONSTANTS
    MaxAge,         \* _MAX_AGE: seconds a quote may be used
    Allowance,      \* _FUTURE_ALLOWANCE: seconds a quote may seem to be ahead
    MaxTime,        \* bound: seconds that pass
    MaxWire,        \* bound: messages on their way
    MaxSkew,        \* bound: error of the wall clock
    MaxAdjust,      \* bound: times the clock is set
    MaxMishaps      \* bound: messages that cannot be read, connections lost

ASSUME QuoteBounds ==
    {MaxAge, Allowance, MaxTime, MaxWire, MaxSkew, MaxAdjust, MaxMishaps} \subseteq Nat

Feed == {"bbo", "mark"}
Seconds == 0 .. MaxTime
Skew == -MaxSkew .. MaxSkew

VARIABLES
    now,        \* the true time, which the monotonic clock follows
    skew,       \* what the wall clock adds to it
    open,       \* the connection
    pushed,     \* quotes on their way
    quote,      \* _bbo and _mark: the quote, when it expires and arrived
    order,      \* _bbo_order and _mark_order: no older quote is accepted
    newest,     \* ghost: the newest quote that was accepted
    used        \* what was used of the bounds

quoteVars == <<now, skew, open, pushed, quote, order, newest, used>>

NoQuote == [made |-> -1, expires |-> -1, came |-> -1, honest |-> FALSE]
Nothing == [k \in Feed |-> NoQuote]
Never   == [k \in Feed |-> -1]

QuoteTypeOK ==
    /\ now \in Seconds /\ skew \in Skew /\ open \in BOOLEAN
    /\ pushed \subseteq [kind : Feed, made : Seconds]
    /\ quote \in [Feed -> [made : Seconds, expires : Int, came : Seconds, honest : BOOLEAN] \cup {NoQuote}]
    /\ order \in [Feed -> Seconds \cup {-1}] /\ newest \in [Feed -> Seconds \cup {-1}]
    /\ used \in [adjust : 0 .. MaxAdjust, fault : 0 .. MaxMishaps]

QuoteInit ==
    /\ now = 0 /\ skew \in Skew
    /\ open = FALSE /\ pushed = {}
    /\ quote = Nothing /\ order = Never /\ newest = Never
    /\ used = [adjust |-> 0, fault |-> 0]

Spend(bound, max) == used[bound] < max /\ used' = [used EXCEPT ![bound] = @ + 1]

-----------------------------------------------------------------------------
Second ==
    /\ now < MaxTime /\ now' = now + 1
    /\ UNCHANGED <<skew, open, pushed, quote, order, newest, used>>

SetClock ==
    /\ Spend("adjust", MaxAdjust)
    /\ skew' \in Skew
    /\ UNCHANGED <<now, open, pushed, quote, order, newest>>

\* At most one quote of a kind and a second.
Quote(k) ==
    /\ open /\ Cardinality(pushed) < MaxWire
    /\ pushed' = pushed \cup {[kind |-> k, made |-> now]}
    /\ UNCHANGED <<now, skew, open, quote, order, newest, used>>

\* _clear_locked at both ends of a connection.
QuotesUp ==
    /\ ~open /\ open' = TRUE
    /\ pushed' = {} /\ quote' = Nothing /\ order' = Never /\ newest' = Never
    /\ UNCHANGED <<now, skew, used>>

QuotesDown ==
    /\ open /\ open' = FALSE /\ Spend("fault", MaxMishaps)
    /\ pushed' = {} /\ quote' = Nothing /\ order' = Never /\ newest' = Never
    /\ UNCHANGED <<now, skew>>

\* _fresh, by the wall clock.
InTime(made) == now + skew - made \in -Allowance .. MaxAge

\* The age at arrival is taken off the monotonic lifetime.
Lifetime(made) == now + MaxAge - (now + skew - made)

AcceptQuote(m) ==
    /\ quote' = [quote EXCEPT ![m.kind] = [made |-> m.made, expires |-> Lifetime(m.made),
                                           came |-> now, honest |-> skew >= 0]]
    /\ order' = [order EXCEPT ![m.kind] = m.made]
    /\ newest' = [newest EXCEPT ![m.kind] = IF @ < m.made THEN m.made ELSE @]

\* Mutant: a quote that is dropped takes its place in the order along.
DropForgets(k) ==
    /\ quote' = [quote EXCEPT ![k] = NoQuote]
    /\ order' = [order EXCEPT ![k] = -1]
    /\ UNCHANGED newest

\* What cannot be used drops the quote, never its place in the order.
DropQuote(k) ==
    /\ quote' = [quote EXCEPT ![k] = NoQuote]
    /\ UNCHANGED <<order, newest>>

\* _handle_message: a quote that was overtaken changes nothing.
HandleQuote(m) ==
    /\ open /\ pushed' = pushed \ {m}
    /\ IF m.made <= order[m.kind] THEN UNCHANGED <<quote, order, newest>>
       ELSE IF InTime(m.made) THEN AcceptQuote(m)
       ELSE DropQuote(m.kind)
    /\ UNCHANGED <<now, skew, open, used>>

HandleBadQuote(m) ==
    /\ open /\ pushed' = pushed \ {m} /\ Spend("fault", MaxMishaps)
    /\ IF m.made <= order[m.kind] THEN UNCHANGED <<quote, order, newest>> ELSE DropQuote(m.kind)
    /\ UNCHANGED <<now, skew, open>>

\* A message that is no JSON drops both.
HandleNoise(m) ==
    /\ open /\ pushed' = pushed \ {m} /\ Spend("fault", MaxMishaps)
    /\ quote' = Nothing
    /\ UNCHANGED <<now, skew, open, order, newest>>

Usable(k) == open /\ quote[k] # NoQuote /\ InTime(quote[k].made) /\ now <= quote[k].expires

\* book and mark_price: a quote that is found too old is dropped.
ReadQuote(k) ==
    /\ open
    /\ IF quote[k] # NoQuote /\ ~Usable(k) THEN DropQuote(k) ELSE UNCHANGED <<quote, order, newest>>
    /\ UNCHANGED <<now, skew, open, pushed, used>>

QuoteNext ==
    \/ Second \/ SetClock
    \/ QuotesUp \/ QuotesDown
    \/ \E k \in Feed : Quote(k) \/ ReadQuote(k)
    \/ \E m \in pushed : HandleQuote(m) \/ HandleBadQuote(m) \/ HandleNoise(m)

QuoteSpec == QuoteInit /\ [][QuoteNext]_quoteVars

-----------------------------------------------------------------------------
(* Properties *)

\* book returns the newest quote that was accepted on this connection, or
\* none: an overtaken message does not come back after the newer one was
\* dropped, and setting the wall clock, even backwards, never lets a quote be
\* used longer than its age at arrival left it, or longer than MaxAge in all
\* when that clock was not behind at its arrival.
QuoteIsTheNewest ==
    \A k \in Feed : Usable(k) =>
        /\ quote[k].made = newest[k]
        /\ now - quote[k].came <= MaxAge + Allowance
        /\ quote[k].honest => now - quote[k].made <= MaxAge

=============================================================================
