-------------------------- MODULE MCHandshakeFlight --------------------------
EXTENDS HandshakeFlight

\* ServerHello, EncryptedExtensions, a Certificate of several fragments and
\* Finished; the client only answers with Finished.
ServerAuthenticates == [server |-> <<1, 1, 2, 1>>, client |-> <<1>>]

\* ServerHello and two protected messages; the client answers with a short
\* Certificate, a CertificateVerify of two fragments, which can be whole before
\* the Certificate arrives, and Finished.  Refragmenting moves the boundary
\* between the two.
ClientAuthenticates == [server |-> <<1, 1, 1>>, client |-> <<1, 4, 1>>]
UnevenSizes == <<3, 2>>
TwoSizes == <<2, 1>>
OneSize == <<2>>
=============================================================================
