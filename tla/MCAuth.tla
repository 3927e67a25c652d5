------------------------------- MODULE MCAuth -------------------------------
(* A small instance of Auth for TLC. *)
EXTENDS Auth, TLC

CONSTANTS t1, lower, upper, admin

\* lower and upper spell one address in two letter cases.
FoldCase(e) == IF e = upper THEN lower ELSE e

Cred(bearer, cookie, trusted, header, email) ==
  [bearer |-> bearer, cookie |-> cookie, trusted |-> trusted, header |-> header, email |-> email]

\* Each credential alone, credentials together, and headers that do not count.
SomePresented ==
  {Cred(t1, FALSE, FALSE, "none", lower), Cred(None, TRUE, FALSE, "one", lower),
   Cred(None, FALSE, TRUE, "one", lower), Cred(None, FALSE, TRUE, "one", upper),
   Cred(t1, TRUE, TRUE, "one", upper), Cred(None, FALSE, TRUE, "joined", admin),
   Cred(None, FALSE, TRUE, "malformed", admin)}

\* Requests are interchangeable, and so are the ids CreateUser draws.
AuthSymmetry == Permutations(Request) \cup Permutations(UserId \ {Admin})
=============================================================================
