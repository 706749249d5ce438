--------------------------- MODULE PasswordReset ---------------------------
(***************************************************************************)
(* The password reset (AuthService.requestPasswordReset and                *)
(* confirmPasswordReset) beside the requests of Membership.  Each writes   *)
(* users with a single statement outside a transaction, which waits for    *)
(* whoever has locked the row; between the statements anything may happen. *)
(* A link that has expired is refused like one that is not known: neither  *)
(* leaves a trace.                                                         *)
(***************************************************************************)
EXTENDS Membership

VARIABLES
  token,     \* users.password_reset_token: the request whose link is in force, or None
  password,  \* the request that set users.password, or None since the registration
  reset      \* each request's reset: its next statement, the member, and the link it
             \* sends or follows, named by the request that made it

resetVars == <<token, password, reset>>
allVars == <<vars, resetVars>>

NoReset == [at |-> "idle", member |-> Idle.member, link |-> None]

ResetInit ==
  /\ Init
  /\ token = [u \in Members |-> None]
  /\ password = [u \in Members |-> None]
  /\ reset = [p \in Requests |-> NoReset]

-----------------------------------------------------------------------------
Resetting(p) == reset[p].at \in {"storeToken", "mail", "setPassword"}

\* p has been asked for nothing yet.
Unused(p) == pc[p] = "idle" /\ reset[p].at = "idle"

Proceed(p, next) == reset' = [reset EXCEPT ![p].at = next]

\* requestPasswordReset: the account is found by its e-mail address, whatever its
\* status, and a fresh token is drawn.
RequestReset(p) ==
  /\ Unused(p)
  /\ \E u \in Members :
       /\ status[u] # "none"
       /\ reset' = [reset EXCEPT ![p] = [at |-> "storeToken", member |-> u, link |-> p]]
  /\ UNCHANGED <<token, password>>

\* The update replaces the token of an earlier link.
StoreToken(p) ==
  /\ reset[p].at = "storeToken" /\ owner[reset[p].member] = None
  /\ token' = [token EXCEPT ![reset[p].member] = p]
  /\ Proceed(p, "mail")
  /\ UNCHANGED password

\* sendPasswordResetEmail; the answer is the same when the mail could not be sent.
Mail(p) ==
  /\ reset[p].at = "mail"
  /\ Proceed(p, "sent") \/ Proceed(p, "lost")
  /\ UNCHANGED <<token, password>>

\* The links that members have been sent.
Links == {q \in Requests : reset[q].at = "sent"}

\* What confirmPasswordReset does to the token on finding it: nothing.  The mutant uses
\* it up at once.
TokenFoundUsed(u) == [token EXCEPT ![u] = None]
TokenFound(u) == token

\* confirmPasswordReset: the account is found by the token; then the new password is
\* hashed.
ConfirmReset(p) ==
  /\ Unused(p)
  /\ \E q \in Links :
       /\ token[reset[q].member] = q
       /\ reset' = [reset EXCEPT ![p] = [at |-> "setPassword", member |-> reset[q].member,
                                         link |-> q]]
       /\ token' = TokenFound(reset[q].member)
  /\ UNCHANGED password

\* The token after the update, which does not look at it again.  The mutant leaves it.
TokenKept(u) == token
TokenCleared(u) == [token EXCEPT ![u] = None]

SetPassword(p) ==
  /\ reset[p].at = "setPassword" /\ owner[reset[p].member] = None
  /\ password' = [password EXCEPT ![reset[p].member] = p]
  /\ token' = TokenCleared(reset[p].member)
  /\ Proceed(p, "changed")

\* The process or the connection is lost between two statements.
LoseReset(p) == Resetting(p) /\ Proceed(p, "lost") /\ UNCHANGED <<token, password>>

ResetProgress(p) == (StoreToken(p) \/ Mail(p) \/ SetPassword(p)) /\ UNCHANGED vars

ResetStep(p) ==
  \/ ResetProgress(p)
  \/ (RequestReset(p) \/ ConfirmReset(p) \/ LoseReset(p)) /\ UNCHANGED vars

\* A request of Membership has not been used for a reset.
MembershipStep(p) == reset[p].at = "idle" /\ Step(p)

ResetNext ==
  \/ /\ Quiet \/ Spend \/ \E p \in Requests : MembershipStep(p)
     /\ UNCHANGED resetVars
  \/ \E p \in Requests : ResetStep(p)

ResetSpec == ResetInit /\ [][ResetNext]_allVars

\* As in Membership; the mail server answers, one way or the other.
FairResetSpec == ResetSpec /\ Fairness /\ \A p \in Requests : WF_allVars(ResetProgress(p))

-----------------------------------------------------------------------------
(* Properties. *)

\* Every variable has its type.
ResetTypeOK ==
  /\ token \in [Members -> Requests \cup {None}]
  /\ password \in [Members -> Requests \cup {None}]
  /\ reset \in [Requests -> [at : {"idle", "storeToken", "mail", "sent", "setPassword",
                                   "changed", "lost"},
                             member : Members, link : Requests \cup {None}]]

\* A link that has changed a password is never in force again, although the update does
\* not look at the token: only confirmations that overlap can both use it
\* (confirmPasswordReset).
SpentLinksStayDead ==
  \A p \in Requests : reset[p].at = "changed" => token[reset[p].member] # reset[p].link

LinksOf(u) == {q \in Links : reset[q].member = u}

\* Nothing has become of a reset of u's but links.
OnlyLinks(u) ==
  \A p \in Requests : reset[p].member = u => reset[p].at \in {"idle", "sent", "setPassword"}

\* Whoever has been sent links and has not changed the password can do so with one of
\* them, unless a mail is still under way or a reset was lost on the way: a newer link
\* replaces an older one only to be sent itself (requestPasswordReset).
OneLinkWorks ==
  \A u \in Members : LinksOf(u) # {} /\ OnlyLinks(u) => token[u] \in LinksOf(u)

\* Every transaction and every reset ends: nobody waits for ever for a user's row or the
\* balances.
EverythingEnds ==
  \A p \in Requests : InTransaction(p) \/ Resetting(p) ~> ~InTransaction(p) /\ ~Resetting(p)

=============================================================================
