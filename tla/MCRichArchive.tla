---- MODULE MCRichArchive ----
EXTENDS RichArchive, TLC
====
