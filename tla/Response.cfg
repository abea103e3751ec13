\* Two changes of the file for each request, at any of its steps.
SPECIFICATION Spec
CONSTANTS
  Requests <- MCRequests
  MaxChanges = 2
INVARIANTS
  
  Served
