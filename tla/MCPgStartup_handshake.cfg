\* Every client and database choice, TLS failures, and the stop timer may win the select.
CONSTANTS
    ClientSSLChoices = {TRUE, FALSE}
    DbSSLAnswers = {"S", "N", "E"}
    TLSConfigured = TRUE
    TLSVerdicts = {TRUE, FALSE}
    TimeoutCanFire = TRUE
SPECIFICATION Spec
INVARIANT TypeOK
INVARIANT HandshakeOwnsClientSocket
INVARIANT OneClientReader
PROPERTY StartupTerminates
