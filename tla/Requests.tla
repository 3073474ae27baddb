-------------------------------- MODULE Requests --------------------------------
\* What the services of Administration have in common.
CONSTANTS Calls,  \* API calls in flight at once
          None    \* the null of a column
=============================================================================
