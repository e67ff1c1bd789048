\* After a ClientStopTimeout the stopped reader's acknowledgement has no
\* receiver on the unbuffered ClientStopResponse channel.
CONSTANTS
    ClientSSLChoices = {TRUE}
    DbSSLAnswers = {"S"}
    TLSConfigured = TRUE
    TLSVerdicts = {TRUE}
    TimeoutCanFire = TRUE
SPECIFICATION Spec
PROPERTY ReadersReleasedOnFailure
