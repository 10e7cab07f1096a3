---- MODULE MCCapability ----
EXTENDS ArchiveCapability
====
