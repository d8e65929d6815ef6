------------------------------ MODULE MCWorker ------------------------------
EXTENDS Worker
CONSTANTS rod, gone
\* The first type of one chain has no provider.
Mixed == <<<<gone, rod>>, <<rod>>>>
ToRod == <<rod>>
============================================================================
