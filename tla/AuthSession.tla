----------------------------- MODULE AuthSession -----------------------------
(***************************************************************************)
(* The session that the tabs and apps of one browser share                 *)
(* (packages/auth): a cookie with a mirror in each app's localStorage, a   *)
(* copy of it in the React state of each tab, and the socket each tab has  *)
(* opened with it (packages/data/src/socket), with a component listening.  *)
(***************************************************************************)
CONSTANTS
  Tabs,      \* tabs of one browser
  Apps,      \* the marketplace and the workspaces, each on an origin of its own
  People,    \* accounts, and their tokens
  Guest,     \* the credentials of an anonymous socket
  None       \* no account, no token, no socket

VARIABLES
  app,       \* app[t]: the app of the tab
  cookie,    \* whose token and user are in the cookie
  mirror,    \* mirror[a]: whose are in the localStorage of the app
  shown,     \* shown[t]: the user in the tab's state
  check,     \* check[t]: whose token is being validated by /auth/me
  entering,  \* entering[t]: who is signing in
  bare,      \* tabs with a request under way that was sent without a token
  socket,    \* socket[t]: the credentials of the tab's socket
  hears,     \* hears[t]: the listener is "absent", on the "current" socket or on a "dead" one
  outlived,  \* history: tabs whose listener was there before its user was confirmed, or after
  behind,    \* history: tabs whose session another tab has changed since
  over,      \* history: accounts that signed out, and where, and did not sign in again
  revived    \* history: accounts whose session came back with a late check

stored == <<cookie, mirror>>
tab == <<shown, check, entering, socket, hears, outlived>>
vars == <<app, stored, tab, bare, behind, over, revived>>

Account == People \cup {None}

\* Every session, socket and listener is in its range.
TypeOK ==
  /\ app \in [Tabs -> Apps] /\ cookie \in Account /\ mirror \in [Apps -> Account]
  /\ {shown, check, entering} \subseteq [Tabs -> Account]
  /\ socket \in [Tabs -> Account \cup {Guest}]
  /\ hears \in [Tabs -> {"absent", "current", "dead"}]
  /\ bare \cup outlived \cup behind \subseteq Tabs
  /\ over \subseteq People \X Apps /\ revived \subseteq People

Nobody == [t \in Tabs |-> None]

Init ==
  /\ app \in [Tabs -> Apps] /\ cookie = None /\ mirror = [a \in Apps |-> None]
  /\ shown = Nobody /\ check = Nobody /\ entering = Nobody /\ socket = Nobody
  /\ hears = [t \in Tabs |-> "absent"]
  /\ bare = {} /\ outlived = {} /\ behind = {} /\ over = {} /\ revived = {}

\* getToken and getStoredUser: the cookie, or else the mirror.
Stored(t) == IF cookie # None THEN cookie ELSE mirror[app[t]]

\* setSession and clearSession write the cookie and the app's own mirror; the
\* other tabs are not told.
Store(t, u) ==
  /\ cookie' = u
  /\ mirror' = [mirror EXCEPT ![app[t]] = u]
  /\ behind' = (behind \ {t}) \cup {o \in Tabs \ {t} : Stored(o)' # Stored(o)}

\* reconnectSocket and disconnectSocket: the old socket is closed with the
\* handlers on it, which nobody registers on the next one.
Reconnect(t, as) ==
  /\ socket' = [socket EXCEPT ![t] = as]
  /\ hears' = [hears EXCEPT ![t] = IF @ = "absent" THEN @ ELSE "dead"]

\* The page of the tab is loaded with what is stored; its listeners are gone.
Fresh(t, u) ==
  /\ shown' = [shown EXCEPT ![t] = u]
  /\ check' = [check EXCEPT ![t] = u]
  /\ entering' = [entering EXCEPT ![t] = None]
  /\ socket' = [socket EXCEPT ![t] = None]
  /\ hears' = [hears EXCEPT ![t] = "absent"]
  /\ outlived' = outlived \ {t} /\ bare' = bare \ {t}

-----------------------------------------------------------------------------
\* AuthProvider mounts: what is stored is shown, and checked with the server.
Load(t) ==
  /\ Fresh(t, Stored(t))
  /\ behind' = behind \ {t}
  /\ UNCHANGED <<stored, over, revived>>

\* /auth/me answers with the user of the token it was asked with.
Confirmed(t) ==
  LET u == check[t] IN
  /\ u # None
  /\ Store(t, u)
  /\ shown' = [shown EXCEPT ![t] = u]
  /\ check' = [check EXCEPT ![t] = None]
  /\ Reconnect(t, u)
  /\ revived' = IF cookie = u THEN revived ELSE revived \cup {u}
  /\ UNCHANGED <<entering, bare, outlived, over>>

\* Any other answer clears the session; the socket stays as it is.
Rejected(t) ==
  /\ check[t] # None
  /\ Store(t, None)
  /\ shown' = [shown EXCEPT ![t] = None]
  /\ check' = [check EXCEPT ![t] = None]
  /\ UNCHANGED <<entering, bare, socket, hears, outlived, over, revived>>

\* No answer: the session is kept as it was restored.
Unreachable(t) ==
  /\ check[t] # None
  /\ check' = [check EXCEPT ![t] = None]
  /\ UNCHANGED <<stored, shown, entering, bare, socket, hears, outlived, behind, over, revived>>

\* The form of /auth, which is there once nothing is being checked.
SignIn(t, u) ==
  /\ shown[t] = None /\ check[t] = None /\ entering[t] = None
  /\ entering' = [entering EXCEPT ![t] = u]
  /\ UNCHANGED <<stored, shown, check, bare, socket, hears, outlived, behind, over, revived>>

SignedIn(t) ==
  LET u == entering[t] IN
  /\ u # None
  /\ Store(t, u)
  /\ shown' = [shown EXCEPT ![t] = u]
  /\ entering' = [entering EXCEPT ![t] = None]
  /\ Reconnect(t, u)
  /\ over' = over \ ({u} \X Apps) /\ revived' = revived \ {u}
  /\ UNCHANGED <<check, bare, outlived>>

\* The credentials are wrong, or the request fails.
Refused(t) ==
  /\ entering[t] # None
  /\ entering' = [entering EXCEPT ![t] = None]
  /\ UNCHANGED <<stored, shown, check, bare, socket, hears, outlived, behind, over, revived>>

\* Mutant: the stored session is left where it is.
SignOutKeeping(t) ==
  /\ shown[t] # None
  /\ shown' = [shown EXCEPT ![t] = None]
  /\ Reconnect(t, None)
  /\ outlived' = IF hears[t] = "absent" THEN outlived ELSE outlived \cup {t}
  /\ over' = over \cup {<<shown[t], app[t]>>}
  /\ UNCHANGED <<stored, behind, check, entering, bare, revived>>

\* logout: a check under way is not called off.
SignOut(t) ==
  /\ shown[t] # None
  /\ Store(t, None)
  /\ shown' = [shown EXCEPT ![t] = None]
  /\ Reconnect(t, None)
  /\ outlived' = IF hears[t] = "absent" THEN outlived ELSE outlived \cup {t}
  /\ over' = over \cup {<<shown[t], app[t]>>}
  /\ UNCHANGED <<check, entering, bare, revived>>

\* A live component mounts: getSocket opens the socket with what is stored.
Mount(t) ==
  /\ hears[t] = "absent"
  /\ hears' = [hears EXCEPT ![t] = "current"]
  /\ socket' = [socket EXCEPT ![t] =
       IF @ # None THEN @ ELSE IF Stored(t) = None THEN Guest ELSE Stored(t)]
  /\ outlived' = IF shown[t] = None \/ check[t] # None THEN outlived \cup {t} ELSE outlived
  /\ UNCHANGED <<stored, shown, check, entering, bare, behind, over, revived>>

Unmount(t) ==
  /\ hears[t] # "absent"
  /\ hears' = [hears EXCEPT ![t] = "absent"]
  /\ outlived' = outlived \ {t}
  /\ UNCHANGED <<stored, shown, check, entering, bare, socket, behind, over, revived>>

\* apiFetch finds no token; the server answers 401 to nothing else.
Ask(t) ==
  /\ Stored(t) = None /\ t \notin bare
  /\ bare' = bare \cup {t}
  /\ UNCHANGED <<stored, tab, behind, over, revived>>

\* The 401 clears whatever is stored by now, and unless the page is /auth,
\* which nobody signed in stays on, it loads that page.
Denied(t) ==
  /\ t \in bare
  /\ Store(t, None)
  /\ \/ shown[t] = None /\ bare' = bare \ {t} /\ UNCHANGED tab
     \/ Fresh(t, None)
  /\ UNCHANGED <<over, revived>>

Next ==
  /\ UNCHANGED app
  /\ \E t \in Tabs :
       \/ Load(t) \/ Confirmed(t) \/ Rejected(t) \/ Unreachable(t)
       \/ \E u \in People : SignIn(t, u)
       \/ SignedIn(t) \/ Refused(t) \/ SignOut(t)
       \/ Mount(t) \/ Unmount(t) \/ Ask(t) \/ Denied(t)

Spec == Init /\ [][Next]_vars

-----------------------------------------------------------------------------
(* Properties                                                              *)

\* The comment "the token is the single source of truth": a tab shows the user
\* its requests are sent for, whatever answers come late, unless another tab
\* has changed the session since this one read or wrote it.
ShownIsStored == \A t \in Tabs \ behind : shown[t] = Stored(t)

\* The comment "call reconnectSocket() after login/logout to refresh the
\* credentials": in such a tab the user gets the events of no other account.
SocketIsUsers ==
  \A t \in Tabs \ behind : shown[t] # None /\ socket[t] # None => socket[t] = shown[t]

\* useSocketEvent means to subscribe for the lifetime of the component: it does
\* for a component that came after its user was confirmed and saw no sign-out.
\* One that came earlier, on a page that does not wait for the check, hears
\* nothing after it.
ListensOn == \A t \in Tabs \ outlived : hears[t] # "dead"

\* Who signed out is signed out: no tab of that app finds the session again,
\* unless a check brought it back that was under way, or that another app made
\* with the copy in its mirror, which a sign-out elsewhere leaves there.
SignedOut == \A t \in Tabs : <<Stored(t), app[t]>> \in over => Stored(t) \in revived

SessionSound == TypeOK /\ ShownIsStored /\ SocketIsUsers /\ ListensOn /\ SignedOut

=============================================================================
