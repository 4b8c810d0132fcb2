----------------------------- MODULE MCEntities -----------------------------
EXTENDS Entities
CONSTANTS a, b, r, s, zero, one
=============================================================================
