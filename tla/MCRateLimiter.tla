--------------------------- MODULE MCRateLimiter ---------------------------
(***************************************************************************)
(* A small instance of RateLimiter for TLC: a steady page and a hasty and  *)
(* flaky one, each with an address of its own, and two pages that share    *)
(* the bucket of an address nobody could resolve.                          *)
(***************************************************************************)
EXTENDS RateLimiter, TLC

CONSTANTS steady, hasty, here, there, home, office, unknown

MCAddressOf == [p \in Pages |-> CASE p = steady -> home
                                  [] p = hasty -> office
                                  [] OTHER -> unknown]
MCSchedule == <<2, 3>>

\* The two that share a bucket are alike.
MCSymmetry == Permutations({here, there})

Untouched(a) ==
  /\ served[a] = <<>>
  /\ \A p \in Pages : AddressOf[p] = a => page[p] = "off" /\ creating[p] = 0

\* Pages of different addresses share nothing but the clock: their requests need
\* not be interleaved.
OneAddressAtATime ==
  \E a \in Addresses : \A b \in Addresses \ {a} : Untouched(b)'
=============================================================================
