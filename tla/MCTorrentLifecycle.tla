------------------------- MODULE MCTorrentLifecycle -------------------------
(* TorrentLifecycle for TLC; its constants are given in the cfg.            *)
EXTENDS TorrentLifecycle
=============================================================================
