------------------------ MODULE MCSourceIntegration ------------------------
EXTENDS SourceIntegration

CONSTANTS a1, a2, l1, l2

\* Two log sources of one account, which share a statement of the queue policy,
\* and one of another account; two names for the one aws-scan source a1 can have.
MCSources == {<<"aws-s3", a1, l1>>, <<"aws-s3", a1, l2>>, <<"aws-s3", a2, l1>>,
              <<"aws-scan", a1, l1>>, <<"aws-scan", a1, l2>>}
=============================================================================
