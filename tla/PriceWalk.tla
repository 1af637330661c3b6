----------------------------- MODULE PriceWalk -----------------------------
(***************************************************************************)
(* What the price generator promises to whoever watches the quotes: the    *)
(* quotes of one ticker are a walk that never falls below the floor and    *)
(* never moves by more than the allowed fraction between two quotes in     *)
(* succession.  Prices.tla shows that generate_quote keeps the promise.    *)
(***************************************************************************)
EXTENDS Integers

CONSTANTS Tickers,            \* the ticker symbols
          MIN_PRICE,          \* floor of all prices
          MAX_START_PRICE,    \* all starting prices are below it
          ChangeNum,          \* a price moves by at most ChangeNum/ChangeDen
          ChangeDen,          \*   of itself
          NoQuote             \* what a ticker without quotes shows

VARIABLE quote                \* the last quote of each ticker

Close(p, q) == /\ (q - p) * ChangeDen <= ChangeNum * p
               /\ (p - q) * ChangeDen <= ChangeNum * p

Init == quote = [t \in Tickers |-> NoQuote]

\* A quote of ticker t: any time stamp, but a price close to the last one, or,
\* for the first quote, close to a possible starting price.
Quote(t) ==
    LET p == quote'[t].price
    IN  /\ quote'[t] \in [price : Nat, timestamp : Nat]
        /\ quote' = [quote EXCEPT ![t] = quote'[t]]
        /\ p >= MIN_PRICE
        /\ IF quote[t] # NoQuote THEN Close(quote[t].price, p)
           ELSE \E start \in MIN_PRICE..(MAX_START_PRICE - 1) : Close(start, p)

Next == \E t \in Tickers : Quote(t)

Spec == Init /\ [][Next]_quote
=============================================================================
