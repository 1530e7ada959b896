----------------------------- MODULE MCTransfers -----------------------------
(* TLC instance of Transfers: posts share a path, each upload has its own.  *)
EXTENDS Transfers, TLC

PostsShare == [s \in Sources |-> IF s \in Posts THEN "posts" ELSE "upload"]

PostsOrUploads == {Posts, Uploads}

\* Handlers are interchangeable, and so are posts.
Symmetry == Permutations(Requests) \cup Permutations(Posts)

TwoPaths == {"posts", "upload"}

=============================================================================
