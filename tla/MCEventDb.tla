----------------------------- MODULE MCEventDb ------------------------------
(* An instance of EventDb for TLC: two versions of a user's metadata, and an *)
(* event of another user with a parent and a relay it lists.                 *)
EXTENDS EventDb

CONSTANTS m1, m2, d, alice, bob, relay, other

MCAuthor == [e \in Events |-> IF e = d THEN bob ELSE alice]
MCTags == [e \in Events |-> IF e = d THEN << <<"e", m1>>, <<"r", relay>> >>
                                     ELSE <<>>]
\* No relay, or both.
MCRelayLists == { <<>>, <<relay, other>> }
=============================================================================
