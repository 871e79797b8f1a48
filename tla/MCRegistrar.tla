----------------------------- MODULE MCRegistrar -----------------------------
EXTENDS Registrar
=============================================================================
