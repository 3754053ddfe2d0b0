------------------------------ MODULE Session -------------------------------
(* The web client's session in one tab: the tokens in the browser's        *)
(* storage, the calls that carry them, the one refresh that calls answered *)
(* with 401 share, and signing out.  What the server answers is left open. *)
EXTENDS Naturals

CONSTANTS Member,    \* accounts that sign in
          Anonymous, \* no account
          WebCall

VARIABLES stored,   \* whose tokens the storage holds
          refresh,  \* refreshPromise: whose tokens are being refreshed
          call,     \* the calls under way
          signed,   \* history: who signed in last and did not sign out since
          crossing, \* history: the refresh under way began before that
          late      \* history: such a refresh was answered since

sessionVars == <<stored, refresh, call, signed, crossing, late>>

SessionConstants == Anonymous \notin Member

Rest == [pc |-> "idle", had |-> FALSE, as |-> Anonymous]

Init ==
    /\ stored = Anonymous /\ refresh = Anonymous /\ signed = Anonymous
    /\ call = [c \in WebCall |-> Rest]
    /\ crossing = FALSE /\ late = FALSE

In(pc)     == {c \in WebCall : call[c].pc = pc}
Move(c, pc) == call' = [call EXCEPT ![c].pc = pc]
Done(c)    == call' = [call EXCEPT ![c] = Rest]

(* From now on a is signed in, or nobody.                                  *)
Becomes(a) ==
    /\ stored' = a /\ signed' = a /\ late' = FALSE /\ crossing' = (refresh # Anonymous)

-----------------------------------------------------------------------------
(* fetchWithAuth: a call, to sign in as somebody or for anything else, is  *)
(* sent with the tokens there are.                                         *)
Send(c, as) ==
    /\ call[c].pc = "idle"
    /\ call' = [call EXCEPT ![c] = [pc |-> "sent", had |-> stored # Anonymous, as |-> as]]
    /\ UNCHANGED <<stored, refresh, signed, crossing, late>>

Succeeds(c) ==
    /\ call[c].pc \in {"sent", "resent"} /\ Done(c)
    /\ IF call[c].as = Anonymous THEN UNCHANGED <<stored, signed, crossing, late>>
       ELSE Becomes(call[c].as)
    /\ UNCHANGED refresh

Errs(c) ==
    /\ call[c].pc = "sent" /\ Done(c)
    /\ UNCHANGED <<stored, refresh, signed, crossing, late>>

(* 401 with a refresh token: join the refresh under way or begin one.      *)
Unauthorized(c) ==
    /\ call[c].pc = "sent" /\ call[c].had
    /\ refresh # Anonymous \/ stored # Anonymous
    /\ refresh' = IF refresh = Anonymous THEN stored ELSE refresh
    /\ Move(c, "waiting")
    /\ UNCHANGED <<stored, signed, crossing, late>>

(* Mutant: signing out leaves the storage alone.                           *)
SignOutKeeps(calls) ==
    /\ signed' = Anonymous /\ late' = FALSE /\ crossing' = (refresh' # Anonymous)
    /\ call' = [c \in WebCall |-> IF c \in calls THEN [Rest EXCEPT !.pc = "leaving"]
                                  ELSE call[c]]
    /\ UNCHANGED stored

(* logout: the storage is cleared at once, the server told after that.     *)
SignOut(calls) ==
    /\ stored' = Anonymous
    /\ signed' = Anonymous /\ late' = FALSE /\ crossing' = (refresh' # Anonymous)
    /\ call' = [c \in WebCall |-> IF c \in calls THEN [Rest EXCEPT !.pc = "leaving"]
                                  ELSE call[c]]

(* There is no token any more to refresh with.                             *)
NothingToRefresh(c) ==
    /\ call[c].pc = "sent" /\ call[c].had
    /\ refresh = Anonymous /\ stored = Anonymous
    /\ UNCHANGED refresh /\ SignOut({c})

(* Those that waited send their call once more.                            *)
Refreshed ==
    /\ refresh # Anonymous
    /\ stored' = refresh /\ refresh' = Anonymous
    /\ call' = [c \in WebCall |-> IF c \in In("waiting") THEN [call[c] EXCEPT !.pc = "resent"]
                                  ELSE call[c]]
    /\ late' = (late \/ crossing) /\ crossing' = FALSE
    /\ UNCHANGED signed

RefreshRefused ==
    /\ refresh # Anonymous /\ refresh' = Anonymous
    /\ SignOut(In("waiting"))

(* The second answer is an error of any kind: it is caught where a failed  *)
(* refresh is.                                                             *)
RetryFails(c) == call[c].pc = "resent" /\ UNCHANGED refresh /\ SignOut({c})

Logout(c) == call[c].pc = "idle" /\ UNCHANGED refresh /\ SignOut({c})

(* The page is left, and with it whatever was under way; when telling the  *)
(* server failed the storage is cleared again.                             *)
Leave(c) ==
    /\ call[c].pc = "leaving"
    /\ call' = [d \in WebCall |-> Rest] /\ refresh' = Anonymous /\ crossing' = FALSE
    /\ \/ UNCHANGED <<stored, signed, late>>
       \/ stored' = Anonymous /\ signed' = Anonymous /\ late' = FALSE

Next ==
    \/ \E c \in WebCall :
          \/ \E as \in Member \cup {Anonymous} : Send(c, as)
          \/ Succeeds(c) \/ Errs(c) \/ Unauthorized(c) \/ NothingToRefresh(c)
          \/ RetryFails(c) \/ Logout(c) \/ Leave(c)
    \/ Refreshed \/ RefreshRefused

Spec == Init /\ [][Next]_sessionVars

-----------------------------------------------------------------------------
(* The tokens in the storage are those of the account that signed in last  *)
(* and not signed out, unless a refresh begun before that was answered     *)
(* after it.                                                               *)
TokensAreTheMembers == stored \in {Anonymous, signed} \/ late

(* "Refresh failed completely; clear the session" (fetchWithAuth): a call  *)
(* signs the account out only when the refresh was refused or impossible.  *)
OnlyRefusalSignsOut ==
    [][\A c \in WebCall :
          call[c].pc \in {"sent", "waiting", "resent"} /\ call'[c].pc = "leaving" =>
              (refresh # Anonymous /\ refresh' = Anonymous) \/ stored = Anonymous]_sessionVars
=============================================================================
