------------------------------- MODULE TokenExpiry -------------------------------
(***************************************************************************)
(* Until when a fetched token is taken from the storage (fetchToken and    *)
(* cachedAccessToken in client.go).  TokenClient has the set of tokens     *)
(* that no longer are (aged); here is the arithmetic that puts one there.  *)
(* Instants are readings of the clock in ticks, nanoseconds in the code; a *)
(* time.Duration holds a number of them and wraps around.                  *)
(***************************************************************************)
EXTENDS Integers

CONSTANTS
    Half,       \* a time.Duration is one of -Half .. Half - 1
    Second,     \* the ticks of a second
    Margin,     \* tokenExpiryMargin
    Instants,   \* readings of the clock
    Lifetimes   \* values of expires_in the shop sends

ASSUME DurationAssumption == Half \in Nat \ {0} /\ Second \in Nat \ {0}
ASSUME MarginAssumption   == Margin \in Nat
ASSUME ClockAssumption    == Instants \subseteq Nat /\ Lifetimes \subseteq Nat

\* What a time.Duration makes of a number of ticks.
Wrap(d) == ((d + Half) % (2 * Half)) - Half

\* fetchToken: the expiry stored beside a token that came with expires_in.
Expiry(received, expiresIn) == received + Wrap(expiresIn * Second)

\* cachedAccessToken: whether a stored token is taken.
Reusable(now, expiry) == now + Margin < expiry

\* A token whose response took no longer than the margin is never taken from the
\* storage once the shop has let it expire, whatever its lifetime wraps to; and
\* one whose lifetime a time.Duration holds is taken as long as it has more than
\* the margin left.
ReuseWithinLifetime ==
    \A issuedAt, received, now \in Instants, expiresIn \in Lifetimes :
        LET ends  == issuedAt + expiresIn * Second
            taken == Reusable(now, Expiry(received, expiresIn))
        IN  received \in issuedAt .. issuedAt + Margin =>
                /\ taken => now < ends
                /\ expiresIn * Second < Half /\ now + Margin < ends => taken
=============================================================================
