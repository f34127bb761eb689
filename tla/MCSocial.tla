------------------------------ MODULE MCSocial ------------------------------
(* The Social tab on small instances. *)
EXTENDS Social

CONSTANTS p1, p2, p3

MCPosts == {p1, p2, p3}

MCWorks == {
    <<"none", {"account", "sync", "tab"}, 2>>,
    <<"lost", {"tab", "sync"}, 2>>,
    <<"started", {"session", "profile", "poll"}, 1>>,
    <<"alone", {"post", "session", "delete"}, 3>>,
    <<"posts", {"vote", "delete"}, 3>>,
    <<"posts", {"edit", "post"}, 2>>,
    <<"posts", {"tab", "feedScope", "vote"}, 2>>,
    <<"posts", {"react", "comment"}, 2>>,
    <<"alone", {"tab", "subtab", "scope"}, 3>>,
    <<"alone", {"search", "details", "member"}, 2>>,
    <<"squad", {"ask", "confirm", "member"}, 2>>,
    <<"squad", {"member", "chat", "friend"}, 2>>,
    <<"alone", {"profile", "avatar", "closeAvatar"}, 2>>,
    <<"alone", {"usage", "view", "dismiss"}, 2>>
}
=============================================================================
