------------------------- MODULE MCSessionManager --------------------------
(* The instances of SessionManager in which a claim of its documentation fails. *)
EXTENDS SessionManager

CONSTANT bookmark

Bookmarks == {bookmark}
NoBookmarks == {}
Saved == {TRUE}
Chat == {"user", "assistant"}
============================================================================
