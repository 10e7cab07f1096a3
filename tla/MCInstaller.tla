---------------------------- MODULE MCInstaller ----------------------------
EXTENDS Installer
=============================================================================
