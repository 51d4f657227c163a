------------------------------ MODULE MCKeyStore ------------------------------
EXTENDS KeyStore

Production == [cors |-> FALSE, token |-> TRUE, requireAuth |-> TRUE,
               multiTenant |-> FALSE, kms |-> TRUE, appAuth |-> TRUE]
=============================================================================
