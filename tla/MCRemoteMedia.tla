--------------------------- MODULE MCRemoteMedia ---------------------------
(***************************************************************************)
(* RemoteMedia with two accounts.  The first has a private message twice,  *)
(* once with a resource that a channel has as well and once only referring *)
(* to media; the second has a private message of its own under the same    *)
(* id, an old one, and a link preview of the channel.                      *)
(***************************************************************************)
EXTENDS RemoteMedia

CONSTANTS k1, k2, k3, r1, r2

Private(a, k, rs) ==
    [account |-> a, key |-> k, channel |-> FALSE, resources |-> rs,
     referenced |-> FALSE, placeholder |-> FALSE, old |-> FALSE]

Records ==
    << Private(1, k1, {r1}),
       [Private(1, k1, {}) EXCEPT !.referenced = TRUE],
       [Private(1, k2, {r1}) EXCEPT !.channel = TRUE],
       Private(2, k1, {r2}),
       [Private(2, k3, {r2}) EXCEPT !.old = TRUE],
       [Private(2, k2, {r1}) EXCEPT !.channel = TRUE, !.placeholder = TRUE] >>

=============================================================================
