------------------------- MODULE MCCanopenLifecycle -------------------------
EXTENDS CanopenLifecycle

\* Two node IDs so that a stored one and a configured one can differ.
MCLssNids == {5, 7}
=============================================================================
