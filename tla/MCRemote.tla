------------------------------ MODULE MCRemote ------------------------------
EXTENDS RemoteValidation
=============================================================================
