---------------------------- MODULE MCSessionStore ----------------------------
\* Small instances of SessionStore for TLC.
EXTENDS SessionStore

ev(id, content) == [id |-> id, content |-> content]

\* Two events that conflict on one ID, one whose content carries a struct (a
\* tool turn with an attachment) and one plain event.
MCEvent == {ev("a", "x"), ev("a", "y"), ev("b", "s"), ev("c", "x")}
MCStructured == {"s"}

\* An empty store, and a log an older build wrote the same event into twice.
MCLegacyLogs == {<<>>, <<ev("a", "x"), ev("a", "x")>>}
=============================================================================
