\* As health.cfg.
SPECIFICATION Spec
PROPERTY ReadyAgain
