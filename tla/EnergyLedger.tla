---------------------------- MODULE EnergyLedger ----------------------------
(***************************************************************************)
(* What the attributor promises to those who scrape it, whatever traces,   *)
(* labels and models say: "attribution that conserves power"               *)
(* (src/README.md:26).  The watts of all pods are posted to accounts at    *)
(* once: each account gets a rate, the rates add up to those watts, and    *)
(* every account grows by its rate over the same seconds.  Nothing else    *)
(* changes a balance, except that all start again from zero.               *)
(***************************************************************************)
EXTENDS Integers

CONSTANTS
    Accounts,       \* what is charged: routes, buckets, idle, unattributed
    Readings,       \* pod -> watts
    Seconds,        \* how long a reading may count
    Total(_)        \* the sum of a function's values

VARIABLES
    balance,        \* joules per account
    rate,           \* watts per account
    reading,        \* the watts of the pods that the rates are the split of
    metered         \* joules read

vars == <<balance, rate, reading, metered>>

Nothing == [a \in Accounts |-> 0]

Init ==
    /\ balance = Nothing
    /\ rate = Nothing
    /\ reading = << >>
    /\ metered = 0

Post(seconds) ==
    /\ reading' \in Readings \union {<< >>}
    /\ rate' \in [Accounts -> Nat]
    /\ Total(rate') = Total(reading')
    /\ balance' = [a \in Accounts |-> balance[a] + rate'[a] * seconds]
    /\ metered' = metered + Total(reading') * seconds

\* The process is restarted.
Restart ==
    /\ balance' = Nothing
    /\ rate' = Nothing
    /\ reading' = << >>
    /\ metered' = 0

Next == (\E seconds \in Seconds : Post(seconds)) \/ Restart

Spec == Init /\ [][Next]_vars
=============================================================================
