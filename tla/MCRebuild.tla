---- MODULE MCRebuild ----
EXTENDS RichRebuild, TLC
CONSTANTS c1, m1
OneChannelWatched == {<<c1, m1>>}
====
