----------------------------- MODULE MCDownloader -----------------------------
(* Instances of Downloader for TLC.                                         *)
EXTENDS Downloader
CONSTANTS a, b, h1, h2, h3
FirstLink == [c \in Contents |-> h1]
=============================================================================
