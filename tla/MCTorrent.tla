----------------------------- MODULE MCTorrent ------------------------------
(* Values of Torrent's constants for TLC. *)
EXTENDS Torrent

\* Three pieces, the last with the content of the first.
MCManifest == <<"h1", "h2", "h1">>

\* Two pieces, for two calls at once.
MCShortManifest == <<"h1", "h2">>
=============================================================================
