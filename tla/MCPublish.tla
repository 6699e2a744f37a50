----------------------------- MODULE MCPublish -----------------------------
(* Publish with two games that are accepted and one that is not yet known. *)
EXTENDS Publish
MCFirstListed == <<"sun", "book">>
=============================================================================
